---------------------------- MODULE Spec2Model ----------------------------
(***************************************************************************)
(* claude-sandbox: the command-line front end (src/claude_sandbox/args.py) *)
(* and the launcher (src/claude_sandbox/cli.py, docker.py, system.py).     *)
(*                                                                         *)
(* main reads the command line with click and calls run_sandbox, which     *)
(* checks the host step by step through external commands and ends with    *)
(* docker run; Spec follows parse_args, SpecRun the launcher, SpecVolume   *)
(* repeated calls of ensure_volume_exists.                                 *)
(*                                                                         *)
(* parse_args(argv) first splits argv into launcher tokens and the         *)
(* pass-through command (_split_at_unknown_flag_or_double_dash), then      *)
(* hands the launcher tokens to an argparse parser (_create_parser) and    *)
(* builds an Args value, or ends with SystemExit.                          *)
(*                                                                         *)
(* Tokens are strings.  The two string tests the code makes on a token,    *)
(* arg.startswith("-") and int(value), are given over the finite token     *)
(* alphabet Tokens by StartsWithDash and IsIntLiteral/IntOf.               *)
(***************************************************************************)
EXTENDS Integers, Sequences, FiniteSets, TLC

VARIABLES
    argv,          \* the raw tokens after the program name
    pc,            \* "start" | "returned" | "exited"
    pre_args,      \* launcher tokens returned by the splitter
    command_args,  \* pass-through tokens returned by the splitter
    remaining,     \* leftovers of parser.parse_known_args(pre_args)
    result,        \* what parse_args produced: Args or SystemExit
    rpc,           \* where the launcher (main / run_sandbox) stands
    args,          \* the Args value run_sandbox was called with
    calls,         \* the external commands run so far, in order
    printed,       \* the lines printed so far: << stream, text >>
    outcome,       \* how the launcher ended: SystemExit, return or exception
    github,        \* what the GitHub validation read and answered
    volumes,       \* the names of the volumes the container engine holds
    ensured,       \* the values ensure_volume_exists returned, in order
    fn_call,       \* a function called on its own: its name and arguments
    fn_value       \* the value that call returned

parse_vars == <<argv, pc, pre_args, command_args, remaining, result>>
run_vars == <<rpc, args, calls, printed, outcome, github, volumes, ensured>>
fn_vars == <<fn_call, fn_value>>
vars == <<argv, pc, pre_args, command_args, remaining, result,
          rpc, args, calls, printed, outcome, github, volumes, ensured,
          fn_call, fn_value>>

-----------------------------------------------------------------------------
(* Bounds and the token alphabet *)

MaxLen == 4

\* The alphabet of command-line tokens.  --detach is present through its
\* alias "-d" (both name the same action and the same known flag), "-v" is a
\* flag the launcher does not know, "-5" is a '-'-prefixed token that argparse
\* reads as a negative number, "" is the empty token, and the numerals are
\* the port boundary cases.
Tokens ==
    { "--github", "-d", "--host-port", "--", "-v", "-5",
      "work", "", "0", "1", "65535", "65536" }

\* Every argv of at most MaxLen tokens.
Inputs == UNION { [1..n -> Tokens] : n \in 0..MaxLen }

-----------------------------------------------------------------------------
(* String primitives over the alphabet *)

\* arg.startswith("-")
StartsWithDash(t) ==
    t \in { "--github", "--detach", "-d", "--host-port", "--", "-v", "-5" }

\* int(value) succeeds (no ValueError)
IsIntLiteral(t) == t \in { "-5", "0", "1", "65535", "65536" }

\* int(value)
IntOf(t) ==
    CASE t = "-5"    -> 0 - 5
      [] t = "0"     -> 0
      [] t = "1"     -> 1
      [] t = "65535" -> 65535
      [] t = "65536" -> 65536

\* "x in list"
Contains(s, t) == \E i \in 1..Len(s) : s[i] = t

\* list.index(t), 1-based: the position of the first occurrence
Index(s, t) == CHOOSE i \in 1..Len(s) : s[i] = t /\ \A j \in 1..(i-1) : s[j] # t

\* s[i:] and s[:i] of Python, on 1-based positions: From(s, i) starts at i,
\* Before(s, i) ends just before i.
From(s, i) == SubSeq(s, i, Len(s))
Before(s, i) == SubSeq(s, 1, i - 1)

-----------------------------------------------------------------------------
(* _split_at_unknown_flag_or_double_dash *)

known_flags == { "--github", "--detach", "-d", "--host-port" }

\* Faulty variants of the scan loop, one slip each, against which the
\* properties below are tried:
\*   "never_marks_profile"        profile_found is never set
\*   "skips_unknown_flags"        an unknown flag is stepped over, not split at
\*   "drops_split_token"          the split at an unknown flag loses that flag
\*   "value_not_skipped"          --host-port advances by one, not two
\*   "flag_after_profile_splits"  a known flag after the profile ends the scan
\*   "value_counts_as_profile"    a --host-port value without '-' marks the profile
RECURSIVE ScanWith(_, _, _, _)
ScanWith(av, i, profile_found, fault) ==
    IF i > Len(av) THEN << av, << >> >>
    ELSE LET arg == av[i] IN
         IF arg = "--host-port" /\ ~(fault = "flag_after_profile_splits" /\ profile_found)
         THEN ScanWith(av, IF fault = "value_not_skipped" THEN i + 1 ELSE i + 2,
                       \/ profile_found
                       \/ /\ fault = "value_counts_as_profile"
                          /\ i < Len(av)
                          /\ ~StartsWithDash(av[i + 1]),
                       fault)
         ELSE IF StartsWithDash(arg)
         THEN IF arg \notin { "--github", "--detach", "-d", "--host-port" }
              THEN IF fault = "skips_unknown_flags"
                   THEN ScanWith(av, i + 1, profile_found, fault)
                   ELSE IF fault = "drops_split_token"
                   THEN << Before(av, i), From(av, i + 1) >>
                   ELSE << Before(av, i), From(av, i) >>
              ELSE IF fault = "flag_after_profile_splits" /\ profile_found
                   THEN << Before(av, i), From(av, i) >>
                   ELSE ScanWith(av, i + 1, profile_found, fault)
         ELSE IF profile_found
              THEN << Before(av, i), From(av, i) >>
              ELSE ScanWith(av, i + 1, fault # "never_marks_profile", fault)

ScanFrom_NeverMarksProfile(av, i, profile_found) ==
    ScanWith(av, i, profile_found, "never_marks_profile")

ScanFrom_SkipsUnknownFlags(av, i, profile_found) ==
    ScanWith(av, i, profile_found, "skips_unknown_flags")

ScanFrom_DropsSplitToken(av, i, profile_found) ==
    ScanWith(av, i, profile_found, "drops_split_token")

ScanFrom_ValueNotSkipped(av, i, profile_found) ==
    ScanWith(av, i, profile_found, "value_not_skipped")

ScanFrom_FlagAfterProfileSplits(av, i, profile_found) ==
    ScanWith(av, i, profile_found, "flag_after_profile_splits")

ScanFrom_ValueCountsAsProfile(av, i, profile_found) ==
    ScanWith(av, i, profile_found, "value_counts_as_profile")

\* The while loop of the splitter from position i on.
RECURSIVE ScanFrom(_, _, _)
ScanFrom(av, i, profile_found) ==
    IF i > Len(av) THEN << av, << >> >>
    ELSE LET arg == av[i] IN
         IF arg = "--host-port"
         THEN ScanFrom(av, i + 2, profile_found)
         ELSE IF StartsWithDash(arg)
         THEN IF arg \notin known_flags
              THEN << Before(av, i), From(av, i) >>
              ELSE ScanFrom(av, i + 1, profile_found)
         ELSE IF profile_found
              THEN << Before(av, i), From(av, i) >>
              ELSE ScanFrom(av, i + 1, TRUE)

\* Faulty variants of the splitter: the scan runs without looking for `--`
\* first; the separator is kept at the head of the command.
Split_SeparatorNotFirst(av) == ScanFrom(av, 1, FALSE)

Split_KeepsSeparator(av) ==
    IF Contains(av, "--")
    THEN LET idx == Index(av, "--") IN << Before(av, idx), From(av, idx) >>
    ELSE ScanFrom(av, 1, FALSE)

\* A faulty variant: the split is made at the last `--`, not the first.
Split_AtLastSeparator(av) ==
    IF Contains(av, "--")
    THEN LET idx == CHOOSE i \in 1..Len(av) :
                        av[i] = "--" /\ \A j \in (i + 1)..Len(av) : av[j] # "--"
         IN  << Before(av, idx), From(av, idx + 1) >>
    ELSE ScanFrom(av, 1, FALSE)

SplitAtUnknownFlagOrDoubleDash(av) ==
    IF Contains(av, "--")
    THEN LET idx == Index(av, "--") IN << Before(av, idx), From(av, idx + 1) >>
    ELSE ScanFrom(av, 1, FALSE)

-----------------------------------------------------------------------------
(* _validate_port *)

MinPort == 1
MaxPort == 65535

\* A faulty variant: the lower bound is off by one, so port 0 passes.
ValidatePort_AcceptsZero(value) ==
    IF ~IsIntLiteral(value)
    THEN [ok |-> FALSE, port |-> 0]
    ELSE LET port == IntOf(value) IN
         IF port < 0 \/ port > 65535
         THEN [ok |-> FALSE, port |-> 0]
         ELSE [ok |-> TRUE, port |-> port]

\* The outcome of _validate_port(value): the port, or ArgumentTypeError.
ValidatePort(value) ==
    IF ~IsIntLiteral(value)
    THEN [ok |-> FALSE, port |-> 0]
    ELSE LET port == IntOf(value) IN
         IF port < MinPort \/ port > MaxPort
         THEN [ok |-> FALSE, port |-> 0]
         ELSE [ok |-> TRUE, port |-> port]

-----------------------------------------------------------------------------
(* The parser of _create_parser and its parse_known_args *)

\* The option strings the parser registers (add_help = False).
OptionStrings == { "--github", "--detach", "-d", "--host-port" }

\* argparse tells a negative number ("-5") from an option, since no
\* registered option looks like a negative number.
NegativeNumberLike(t) == IsIntLiteral(t) /\ StartsWithDash(t)

\* How argparse classifies one argument string: "O" an option (registered or
\* not), "A" an argument (a positional or an option's value).
ParseOptional(arg_string) ==
    IF arg_string = "" THEN "A"
    ELSE IF ~StartsWithDash(arg_string) THEN "A"
    ELSE IF arg_string \in OptionStrings THEN "O"
    ELSE IF NegativeNumberLike(arg_string) THEN "A"
    ELSE "O"

NoError == [message |-> "", value |-> ""]

\* The namespace before any token is consumed: every dest at its default;
\* profile_pending tells that the positional `profile` is not yet consumed.
InitialNamespace ==
    [ profile         |-> "default",
      profile_pending |-> TRUE,
      enable_github   |-> FALSE,
      detach_mode     |-> FALSE,
      host_ports      |-> << >>,
      extras          |-> << >>,
      error           |-> NoError ]

\* store_true for --github
StoreGithub(ns) == [ns EXCEPT !.enable_github = TRUE]

\* store_true for --detach / -d
StoreDetach(ns) == [ns EXCEPT !.detach_mode = TRUE]

\* A faulty variant: the port is put at the front of the list.
AppendHostPort_Prepends(ns, port) ==
    [ns EXCEPT !.host_ports = << port >> \o @]

\* append for --host-port
AppendHostPort(ns, port) == [ns EXCEPT !.host_ports = Append(@, port)]

\* The positional `profile` (nargs = "?") takes the first "A" string that is
\* not an option's value; later ones are left over.
ConsumePositional(ns, s) ==
    IF ns.profile_pending
    THEN [ns EXCEPT !.profile = s, !.profile_pending = FALSE]
    ELSE [ns EXCEPT !.extras = Append(@, s)]

\* parse_known_args from position i on, left to right.
RECURSIVE ConsumeFrom(_, _, _)
ConsumeFrom(arg_strings, i, ns) ==
    IF i > Len(arg_strings) THEN ns
    ELSE LET s == arg_strings[i] IN
         IF ParseOptional(s) = "A"
         THEN ConsumeFrom(arg_strings, i + 1, ConsumePositional(ns, s))
         ELSE IF s \notin OptionStrings
         THEN ConsumeFrom(arg_strings, i + 1, [ns EXCEPT !.extras = Append(@, s)])
         ELSE IF s = "--github"
         THEN ConsumeFrom(arg_strings, i + 1, StoreGithub(ns))
         ELSE IF s \in { "--detach", "-d" }
         THEN ConsumeFrom(arg_strings, i + 1, StoreDetach(ns))
         ELSE \* --host-port takes exactly one following "A" string
              IF i + 1 > Len(arg_strings) \/ ParseOptional(arg_strings[i + 1]) # "A"
              THEN [ns EXCEPT !.error =
                        [message |-> "expected one argument", value |-> ""]]
              ELSE LET v == ValidatePort(arg_strings[i + 1]) IN
                   IF ~v.ok
                   THEN [ns EXCEPT !.error =
                             [message |-> "Invalid port", value |-> arg_strings[i + 1]]]
                   ELSE ConsumeFrom(arg_strings, i + 2, AppendHostPort(ns, v.port))

ParseKnownArgs(arg_strings) == ConsumeFrom(arg_strings, 1, InitialNamespace)

-----------------------------------------------------------------------------
(* parse_args *)

NoResult == [kind |-> "none"]

\* A faulty variant: the profile is taken as parsed, without `or "default"`.
MakeArgs_NoDefault(parsed, cmd_args) ==
    [ kind          |-> "Args",
      profile       |-> parsed.profile,
      enable_github |-> parsed.enable_github,
      detach_mode   |-> parsed.detach_mode,
      host_ports    |-> parsed.host_ports,
      command       |-> parsed.extras \o cmd_args ]

\* Args(...) as parse_args builds it from the namespace and the two halves.
MakeArgs(parsed, cmd_args) ==
    [ kind          |-> "Args",
      profile       |-> IF parsed.profile = "" THEN "default" ELSE parsed.profile,
      enable_github |-> parsed.enable_github,
      detach_mode   |-> parsed.detach_mode,
      host_ports    |-> parsed.host_ports,
      command       |-> IF parsed.extras # << >>
                        THEN parsed.extras \o cmd_args
                        ELSE cmd_args ]

\* A faulty variant: the parser is given the whole argv, the command tokens
\* included.
ParseArgsOf_ParsesWholeArgv(av) ==
    LET split  == SplitAtUnknownFlagOrDoubleDash(av)
        parsed == ParseKnownArgs(av)
    IN  IF parsed.error # NoError
        THEN [ pre_args |-> split[1], command_args |-> split[2],
               remaining |-> << >>,
               result |-> [kind |-> "SystemExit", code |-> 2,
                           message |-> parsed.error.message,
                           value |-> parsed.error.value] ]
        ELSE [ pre_args |-> split[1], command_args |-> split[2],
               remaining |-> parsed.extras,
               result |-> MakeArgs(parsed, split[2]) ]

\* parse_args as a function of argv: the splitter's two halves, the parser's
\* leftovers and the Args built, or the SystemExit of parser.error (status 2).
ParseArgsOf(av) ==
    LET split  == SplitAtUnknownFlagOrDoubleDash(av)
        parsed == ParseKnownArgs(split[1])
    IN  IF parsed.error # NoError
        THEN [ pre_args |-> split[1], command_args |-> split[2],
               remaining |-> << >>,
               result |-> [kind |-> "SystemExit", code |-> 2,
                           message |-> parsed.error.message,
                           value |-> parsed.error.value] ]
        ELSE [ pre_args |-> split[1], command_args |-> split[2],
               remaining |-> parsed.extras,
               result |-> MakeArgs(parsed, split[2]) ]

-----------------------------------------------------------------------------
(* The state machine: one call of parse_args on some argv *)

\* The launcher before anything of it has run.
NoArgs == [kind |-> "none"]
NoOutcome == [kind |-> "none"]
NoGithub == [checked |-> FALSE]
NoCall == [fn |-> "none"]
NoValue == << >>

\* No function is called on its own.
NoFunctionCall == fn_call = NoCall /\ fn_value = NoValue

LauncherIdle ==
    /\ rpc = "idle"
    /\ args = NoArgs
    /\ calls = << >>
    /\ printed = << >>
    /\ outcome = NoOutcome
    /\ github = NoGithub
    /\ volumes = {}
    /\ ensured = << >>

Init ==
    /\ argv \in Inputs
    /\ pc = "start"
    /\ pre_args = << >>
    /\ command_args = << >>
    /\ remaining = << >>
    /\ result = NoResult
    /\ LauncherIdle
    /\ NoFunctionCall

\* parse_args(argv) returns an Args.
ParseArgsReturns ==
    /\ pc = "start"
    /\ LET out == ParseArgsOf(argv) IN
       /\ out.result.kind = "Args"
       /\ pre_args' = out.pre_args
       /\ command_args' = out.command_args
       /\ remaining' = out.remaining
       /\ result' = out.result
    /\ pc' = "returned"
    /\ UNCHANGED << argv, run_vars, fn_vars >>

\* parse_args(argv) ends with SystemExit.
ParseArgsExits ==
    /\ pc = "start"
    /\ LET out == ParseArgsOf(argv) IN
       /\ out.result.kind = "SystemExit"
       /\ pre_args' = out.pre_args
       /\ command_args' = out.command_args
       /\ remaining' = out.remaining
       /\ result' = out.result
    /\ pc' = "exited"
    /\ UNCHANGED << argv, run_vars, fn_vars >>

Next == ParseArgsReturns \/ ParseArgsExits

Spec == Init /\ [][Next]_vars

-----------------------------------------------------------------------------
(* main: the click command (src/claude_sandbox/cli.py)                      *)
(*                                                                          *)
(* click is a third-party library; its command-line handling is given here  *)
(* as far as the declarations of main use it: two flags, one repeatable     *)
(* option with an IntRange type, the -h/--help option and one optional      *)
(* argument.  In standalone mode every usage error (an unknown option, an   *)
(* option without its value, a value its type rejects, a surplus argument)  *)
(* ends the process with status 2, and help ends it with status 0.          *)

MaxCliLen == 2

\* The tokens the launcher's command line is drawn from.
CliTokens ==
    { "--github", "-d", "--host-port", "-h", "--", "-v", "work", "0", "1", "65536" }

CliInputs == UNION { [1..n -> CliTokens] : n \in 0..MaxCliLen }

\* The argv given to parse_args where it is run next to main.
PortInputs == UNION { [1..n -> CliTokens \ { "-h" }] : n \in 0..MaxCliLen }

\* A token click's parser reads as an option: it starts with '-' and is
\* longer than one character ("--" is tested before).
ClickOptionLike(t) == t \in { "--github", "-d", "--host-port", "-h", "-v" }

UsageError(error, value) ==
    [ kind |-> "SystemExit", code |-> 2, error |-> error, value |-> value ]

ClickInitialOpts ==
    [ github |-> FALSE, detach |-> FALSE, host_port |-> << >>, help |-> FALSE,
      largs |-> << >>, error |-> NoResult ]

\* OptionParser.parse_args: the tokens are taken from left to right; `--`
\* ends the options, --host-port takes the next token as its value whatever
\* it looks like, and a token that is no option is kept as an argument.
RECURSIVE ClickParseFrom(_, _, _)
ClickParseFrom(av, i, o) ==
    IF i > Len(av) THEN o
    ELSE LET arg == av[i] IN
         IF arg = "--"
         THEN [o EXCEPT !.largs = @ \o From(av, i + 1)]
         ELSE IF ~ClickOptionLike(arg)
         THEN ClickParseFrom(av, i + 1, [o EXCEPT !.largs = Append(@, arg)])
         ELSE IF arg = "--github"
         THEN ClickParseFrom(av, i + 1, [o EXCEPT !.github = TRUE])
         ELSE IF arg = "-d"
         THEN ClickParseFrom(av, i + 1, [o EXCEPT !.detach = TRUE])
         ELSE IF arg = "-h"
         THEN ClickParseFrom(av, i + 1, [o EXCEPT !.help = TRUE])
         ELSE IF arg = "--host-port"
         THEN IF i + 1 > Len(av)
              THEN [o EXCEPT !.error = UsageError("BadOptionUsage", arg)]
              ELSE ClickParseFrom(av, i + 2,
                                  [o EXCEPT !.host_port = Append(@, av[i + 1])])
         ELSE [o EXCEPT !.error = UsageError("NoSuchOption", arg)]

\* A faulty variant: the range lets 0 through.
IntRangeConvert_AcceptsZero(value) ==
    IF ~IsIntLiteral(value) THEN [ok |-> FALSE, port |-> 0]
    ELSE LET port == IntOf(value) IN
         IF port < 0 \/ port > MaxPort
         THEN [ok |-> FALSE, port |-> 0]
         ELSE [ok |-> TRUE, port |-> port]

\* click.IntRange(1, 65535) applied to one value of --host-port.
IntRangeConvert(value) ==
    IF ~IsIntLiteral(value) THEN [ok |-> FALSE, port |-> 0]
    ELSE LET port == IntOf(value) IN
         IF port < MinPort \/ port > MaxPort
         THEN [ok |-> FALSE, port |-> 0]
         ELSE [ok |-> TRUE, port |-> port]

\* The first value of --host-port the type rejects, if any.
FirstRejected(values) ==
    LET bad == { i \in 1..Len(values) : ~IntRangeConvert(values[i]).ok }
    IN  IF bad = {} THEN 0 ELSE CHOOSE i \in bad : \A j \in bad : i <= j

\* An Args value as main and parse_args build it.
MakeLaunchArgs(profile, enable_github, detach_mode, host_ports, command) ==
    [ kind          |-> "Args",
      profile       |-> profile,
      enable_github |-> enable_github,
      detach_mode   |-> detach_mode,
      host_ports    |-> host_ports,
      command       |-> command ]

\* main(argv) up to its call of run_sandbox: click's usage errors first, then
\* help, then the conversion of the option values, then the surplus
\* arguments; otherwise the Args of cli.py:166-171, whose command is never
\* set.
ClickMainOf(av) ==
    LET o == ClickParseFrom(av, 1, ClickInitialOpts) IN
    IF o.error # NoResult THEN o.error
    ELSE IF o.help THEN [kind |-> "SystemExit", code |-> 0, error |-> "", value |-> ""]
    ELSE IF FirstRejected(o.host_port) # 0
    THEN UsageError("BadParameter", o.host_port[FirstRejected(o.host_port)])
    ELSE IF Len(o.largs) > 1
    THEN UsageError("UnexpectedExtraArgument", o.largs[2])
    ELSE MakeLaunchArgs(IF o.largs = << >> THEN "default" ELSE o.largs[1],
                        o.github, o.detach,
                        [i \in 1..Len(o.host_port) |-> IntRangeConvert(o.host_port[i]).port],
                        << >>)

-----------------------------------------------------------------------------
(* run_sandbox (src/claude_sandbox/cli.py) and the functions it calls       *)
(* (src/claude_sandbox/docker.py, src/claude_sandbox/system.py)             *)
(*                                                                          *)
(* Every subprocess.run is one entry of calls: the command, its return      *)
(* code and the lines of its standard output.  The return code and the      *)
(* output are the environment's choice.  A command whose program is not     *)
(* installed makes subprocess.run raise FileNotFoundError: that entry has   *)
(* the return code NotFound.  Whether a program is installed is decided at  *)
(* its first use in a run.                                                  *)

IMAGE_NAME == "claude-sandbox"

\* get_script_dir(): the directory the package was installed from.
ScriptDir == "/opt/claude-sandbox"

\* The return code standing for "no such program".
NotFound == 0 - 1

ReturnCodes == { 0, 1 }

Call(cmd, rc, out) == [cmd |-> cmd, rc |-> rc, out |-> out]

\* The program of no earlier command of this run.
FirstUse(log, program) == \A i \in 1..Len(log) : log[i].cmd[1] # program

\* The return codes a command of `program` can have after `log`.
Codes(log, program) ==
    IF FirstUse(log, program) THEN ReturnCodes \cup { NotFound } ELSE ReturnCodes

\* A faulty variant: the container is named after the profile alone.
ContainerName_NoPrefix(a) == a.profile

\* Args.volume_name, Args.workspace_volume_name, Args.container_name
VolumeName(a) == "claude-sandbox-" \o a.profile
WorkspaceVolumeName(a) == "claude-sandbox-" \o a.profile \o "-workspace"
ContainerName(a) == "claude-sandbox-" \o a.profile

SysExit(code) == [kind |-> "SystemExit", code |-> code]
Returned_None == [kind |-> "returned"]
Raised(exc) == [kind |-> "raised", exc |-> exc]

\* What one step of run_sandbox did: the commands it ran, the lines it
\* printed and how it ended ("continue", "exit", "return" or "raise").
StepResult(cs, ps, end) == [calls |-> cs, printed |-> ps, end |-> end]

Out(text) == << "stdout", text >>
Err(text) == << "stderr", text >>

\* A faulty variant: a step that calls sys.exit(1) is followed by the next
\* step all the same.
Advance_GoesOnAfterExit(r, next) ==
    /\ calls' = calls \o r.calls
    /\ printed' = printed \o r.printed
    /\ rpc' = CASE r.end \in { "continue", "exit" } -> next
                [] r.end = "return"   -> "done"
                [] r.end = "raise"    -> "raised"
    /\ outcome' = CASE r.end \in { "continue", "exit" } -> outcome
                    [] r.end = "return"   -> Returned_None
                    [] r.end = "raise"    -> Raised("FileNotFoundError")

\* A faulty variant: sys.exit is called with status 0.
Advance_ExitsWithZero(r, next) ==
    /\ calls' = calls \o r.calls
    /\ printed' = printed \o r.printed
    /\ rpc' = CASE r.end = "continue" -> next
                [] r.end = "exit"     -> "exited"
                [] r.end = "return"   -> "done"
                [] r.end = "raise"    -> "raised"
    /\ outcome' = CASE r.end = "continue" -> outcome
                    [] r.end = "exit"     -> SysExit(0)
                    [] r.end = "return"   -> Returned_None
                    [] r.end = "raise"    -> Raised("FileNotFoundError")

\* The step's commands and lines are added to the logs and the launcher
\* moves on to position next, or ends.
Advance(r, next) ==
    /\ calls' = calls \o r.calls
    /\ printed' = printed \o r.printed
    /\ rpc' = CASE r.end = "continue" -> next
                [] r.end = "exit"     -> "exited"
                [] r.end = "return"   -> "done"
                [] r.end = "raise"    -> "raised"
    /\ outcome' = CASE r.end = "continue" -> outcome
                    [] r.end = "exit"     -> SysExit(1)
                    [] r.end = "return"   -> Returned_None
                    [] r.end = "raise"    -> Raised("FileNotFoundError")

\* cli.py:45-51 with check_pulseaudio_running and start_pulseaudio
CheckPulseaudioCmd == << "pulseaudio", "--check" >>
StartPulseaudioCmd == << "pulseaudio", "--exit-idle-time=-1", "--daemon" >>

\* A faulty variant: the daemon is started whatever the check said.
AudioDaemonStep_AlwaysStarts(check_rc, start_rc) ==
    LET check == Call(CheckPulseaudioCmd, check_rc, << >>)
        start == Call(StartPulseaudioCmd, start_rc, << >>)
    IN  IF check_rc = NotFound
        THEN StepResult(<< check >>, << >>, "raise")
        ELSE IF start_rc = 0
        THEN StepResult(<< check, start >>, << >>, "continue")
        ELSE StepResult(<< check, start >>,
                        << Err("ERROR: Could not start PulseAudio."),
                           Err("Run setup-host-audio.sh first.") >>,
                        "exit")

AudioDaemonStep(check_rc, start_rc) ==
    LET check == Call(CheckPulseaudioCmd, check_rc, << >>)
        start == Call(StartPulseaudioCmd, start_rc, << >>)
    IN  IF check_rc = NotFound
        THEN StepResult(<< check >>, << >>, "raise")
        ELSE IF check_rc = 0
        THEN StepResult(<< check >>, << >>, "continue")
        ELSE IF start_rc = 0
        THEN StepResult(<< check, start >>,
                        << Out("PulseAudio is not running. Starting it...") >>,
                        "continue")
        ELSE StepResult(<< check, start >>,
                        << Out("PulseAudio is not running. Starting it..."),
                           Err("ERROR: Could not start PulseAudio."),
                           Err("Run setup-host-audio.sh first.") >>,
                        "exit")

AudioDaemon ==
    /\ rpc = "audio"
    /\ \E check_rc \in Codes(calls, "pulseaudio"), start_rc \in ReturnCodes :
          /\ (check_rc # 1) => start_rc = 0
          /\ Advance(AudioDaemonStep(check_rc, start_rc), "image")
    /\ UNCHANGED << parse_vars, fn_vars, args, github, volumes, ensured >>

\* cli.py:53-58 with check_image_exists and build_image
ImageInspectCmd == << "docker", "image", "inspect", IMAGE_NAME >>
ImageBuildCmd == << "docker", "build", "-t", IMAGE_NAME, ScriptDir >>

ImageStep(inspect_rc, build_rc) ==
    LET inspect == Call(ImageInspectCmd, inspect_rc, << >>)
        build   == Call(ImageBuildCmd, build_rc, << >>)
        missing == Out("Docker image '" \o IMAGE_NAME \o "' not found. Building...")
    IN  IF inspect_rc = NotFound
        THEN StepResult(<< inspect >>, << >>, "raise")
        ELSE IF inspect_rc = 0
        THEN StepResult(<< inspect >>, << >>, "continue")
        ELSE IF build_rc = 0
        THEN StepResult(<< inspect, build >>, << missing >>, "continue")
        ELSE StepResult(<< inspect, build >>,
                        << missing, Err("ERROR: Failed to build Docker image.") >>,
                        "exit")

Image ==
    /\ rpc = "image"
    /\ \E inspect_rc \in Codes(calls, "docker"), build_rc \in ReturnCodes :
          /\ (inspect_rc # 1) => build_rc = 0
          /\ Advance(ImageStep(inspect_rc, build_rc), "container")
    /\ UNCHANGED << parse_vars, fn_vars, args, github, volumes, ensured >>

\* cli.py:60-64 with check_container_exists.  The listing is the standard
\* output of `docker ps`, one container name on each line.
ContainerListCmd == << "docker", "ps", "-a", "--format", "{{.Names}}" >>

\* result.stdout.decode().strip().split("\n")
StripSplit(lines) == IF lines = << >> THEN << "" >> ELSE lines

\* A faulty variant: a listed name that begins with the name counts as the
\* container.
CheckContainerExists_PrefixMatch(container_name, rc, lines) ==
    IF rc # 0 THEN FALSE
    ELSE \E k \in 1..Len(lines) :
            lines[k] \in { container_name, container_name \o "-old" }

CheckContainerExists(container_name, rc, lines) ==
    IF rc # 0 THEN FALSE ELSE Contains(StripSplit(lines), container_name)

\* The listings tried: the name itself, and a longer name next to another
\* container.
ContainerListings(container_name) ==
    { << container_name >>, << "web", container_name \o "-old" >> }

ContainerStep(container_name, rc, lines) ==
    LET list == Call(ContainerListCmd, rc, lines) IN
    IF CheckContainerExists(container_name, rc, lines)
    THEN StepResult(<< list >>,
                    << Err("ERROR: Container '" \o container_name \o "' already exists."),
                       Err("Stop it first with: docker stop " \o container_name) >>,
                    "exit")
    ELSE StepResult(<< list >>, << >>, "continue")

Container ==
    /\ rpc = "container"
    /\ \E rc \in ReturnCodes, lines \in ContainerListings(ContainerName(args)) :
          /\ (rc # 0) => lines = << "web", ContainerName(args) \o "-old" >>
          /\ Advance(ContainerStep(ContainerName(args), rc, lines), "github")
    /\ UNCHANGED << parse_vars, fn_vars, args, github, volumes, ensured >>

\* cli.py:66-76 with get_git_config and validate_github_requirements.
\* A value that may be None is a sequence: << >> for None, << v >> for v.
None == << >>
Truthy(v) == v # None /\ v[1] # ""

GitConfigCmd(key) == << "git", "config", "--global", key >>

\* get_config_value: the stripped output of a successful command that wrote
\* something, else None.  One line of output is its stripped text.
GetConfigValue(rc, out) == IF rc = 0 /\ out # << >> THEN << out[1] >> ELSE None

GitNameOutputs == { << >>, << "" >>, << "Alice" >> }
GitEmailOutputs == { << >>, << "" >>, << "alice@example.com" >> }

\* os.environ.get("SSH_AUTH_SOCK")
SshAuthSocks == { None, << "" >>, << "/tmp/ssh-agent.sock" >> }

SshAgentError ==
    "SSH agent not running. Start it with:\n  eval $(ssh-agent -s)\n  ssh-add ~/.ssh/your_github_key"
UserNameError ==
    "git config user.name not set. Run: git config --global user.name \"Your Name\""
UserEmailError ==
    "git config user.email not set. Run: git config --global user.email \"you@example.com\""

\* A faulty variant: the checks stop at the first one that fails.
ValidateGithub_FirstErrorOnly(ssh_sock, git_config) ==
    LET errors == IF ~Truthy(ssh_sock) THEN << SshAgentError >>
                  ELSE IF ~Truthy(git_config.user_name) THEN << UserNameError >>
                  ELSE IF ~Truthy(git_config.user_email) THEN << UserEmailError >>
                  ELSE << >>
    IN  [valid |-> errors = << >>, errors |-> errors]

\* A faulty variant: the preconditions are always found valid.
ValidateGithub_AlwaysValid(ssh_sock, git_config) ==
    [valid |-> TRUE, errors |-> << >>]

ValidateGithubRequirements(ssh_sock, git_config) ==
    LET errors == (IF ~Truthy(ssh_sock) THEN << SshAgentError >> ELSE << >>)
                  \o (IF ~Truthy(git_config.user_name) THEN << UserNameError >> ELSE << >>)
                  \o (IF ~Truthy(git_config.user_email) THEN << UserEmailError >> ELSE << >>)
    IN  [valid |-> errors = << >>, errors |-> errors]

GithubChecked(ssh_sock, git_config) ==
    LET v == ValidateGithubRequirements(ssh_sock, git_config) IN
    [ checked |-> TRUE, ssh_sock |-> ssh_sock, git_config |-> git_config,
      valid |-> v.valid, errors |-> v.errors ]

GithubStep(name_rc, name_out, email_rc, email_out, ssh_sock) ==
    LET name   == Call(GitConfigCmd("user.name"), name_rc, name_out)
        email  == Call(GitConfigCmd("user.email"), email_rc, email_out)
        config == [ user_name  |-> GetConfigValue(name_rc, name_out),
                    user_email |-> GetConfigValue(email_rc, email_out) ]
        v      == ValidateGithubRequirements(ssh_sock, config)
    IN  IF name_rc = NotFound
        THEN StepResult(<< name >>, << >>, "raise")
        ELSE IF ~v.valid
        THEN StepResult(<< name, email >>,
                        << Err("ERROR: --github requires additional configuration:") >>
                        \o [i \in 1..Len(v.errors) |-> Err("  " \o v.errors[i])],
                        "exit")
        ELSE StepResult(<< name, email >>, << >>, "continue")

Github ==
    /\ rpc = "github"
    /\ IF ~args.enable_github
       THEN /\ rpc' = "volume"
            /\ UNCHANGED << calls, printed, outcome, github >>
       ELSE \E name_rc \in Codes(calls, "git"), name_out \in GitNameOutputs,
               email_rc \in ReturnCodes, email_out \in GitEmailOutputs,
               ssh_sock \in SshAuthSocks :
               /\ (name_rc # 0) => name_out = << >>
               /\ (email_rc # 0) => email_out = << >>
               /\ (name_rc = NotFound) => (email_rc = 0 /\ ssh_sock = None)
               /\ github' = IF name_rc = NotFound THEN github
                            ELSE GithubChecked(ssh_sock,
                                     [ user_name  |-> GetConfigValue(name_rc, name_out),
                                       user_email |-> GetConfigValue(email_rc, email_out) ])
               /\ Advance(GithubStep(name_rc, name_out, email_rc, email_out, ssh_sock),
                          "volume")
    /\ UNCHANGED << parse_vars, fn_vars, args, volumes, ensured >>

\* docker.py:6-27.  The engine answers `docker volume inspect` truthfully:
\* return code 0 exactly for a volume it holds.  `docker volume create` adds
\* the volume when it succeeds.
VolumeInspectCmd(volume_name) == << "docker", "volume", "inspect", volume_name >>
VolumeCreateCmd(volume_name) == << "docker", "volume", "create", volume_name >>

InspectCodes(log, vols, volume_name) ==
    { IF volume_name \in vols THEN 0 ELSE 1 }
        \cup (IF FirstUse(log, "docker") THEN { NotFound } ELSE {})

\* A faulty variant: the volume is created without looking first.
EnsureVolumeExists_AlwaysCreates(volume_name, vols, inspect_rc, create_rc) ==
    LET create == Call(VolumeCreateCmd(volume_name), create_rc, << >>) IN
    [ calls |-> << create >>, raised |-> FALSE, value |-> create_rc = 0,
      volumes |-> IF create_rc = 0 THEN vols \cup { volume_name } ELSE vols ]

\* ensure_volume_exists(volume_name) against an engine holding vols: the
\* commands run, whether FileNotFoundError was raised, the value returned and
\* the volumes the engine holds afterwards.
EnsureVolumeExists(volume_name, vols, inspect_rc, create_rc) ==
    LET inspect == Call(VolumeInspectCmd(volume_name), inspect_rc, << >>)
        create  == Call(VolumeCreateCmd(volume_name), create_rc, << >>)
    IN  IF inspect_rc = NotFound
        THEN [calls |-> << inspect >>, raised |-> TRUE, value |-> FALSE, volumes |-> vols]
        ELSE IF inspect_rc = 0
        THEN [calls |-> << inspect >>, raised |-> FALSE, value |-> TRUE, volumes |-> vols]
        ELSE [ calls |-> << inspect, create >>, raised |-> FALSE, value |-> create_rc = 0,
               volumes |-> IF create_rc = 0 THEN vols \cup { volume_name } ELSE vols ]

Ensured(volume_name, value) == [name |-> volume_name, value |-> value]

\* One `if not ensure_volume_exists(name): ... sys.exit(1)` of cli.py:80-85,
\* after the lines in `before`.
VolumeStep(e, volume_name, before) ==
    IF e.raised THEN StepResult(e.calls, before, "raise")
    ELSE IF ~e.value
    THEN StepResult(e.calls,
                    before \o << Err("ERROR: Failed to create volume '"
                                     \o volume_name \o "'.") >>,
                    "exit")
    ELSE StepResult(e.calls, before, "continue")

\* cli.py:79-82
Volume ==
    /\ rpc = "volume"
    /\ \E inspect_rc \in InspectCodes(calls, volumes, VolumeName(args)),
          create_rc \in ReturnCodes :
          LET e == EnsureVolumeExists(VolumeName(args), volumes, inspect_rc, create_rc) IN
          /\ (inspect_rc # 1) => create_rc = 0
          /\ volumes' = e.volumes
          /\ ensured' = IF e.raised THEN ensured
                        ELSE Append(ensured, Ensured(VolumeName(args), e.value))
          /\ Advance(VolumeStep(e, VolumeName(args),
                         << Out("Creating persistent volume '" \o VolumeName(args)
                                \o "' for profile '" \o args.profile \o "'...") >>),
                     "workspace_volume")
    /\ UNCHANGED << parse_vars, fn_vars, args, github >>

\* A faulty variant: when the workspace volume cannot be created the profile
\* volume is removed again.
WorkspaceVolume_RollsBack ==
    /\ rpc = "workspace_volume"
    /\ \E inspect_rc \in InspectCodes(calls, volumes, WorkspaceVolumeName(args)),
          create_rc \in ReturnCodes :
          LET e == EnsureVolumeExists(WorkspaceVolumeName(args), volumes,
                                      inspect_rc, create_rc) IN
          /\ (inspect_rc # 1) => create_rc = 0
          /\ volumes' = IF e.raised \/ e.value THEN e.volumes
                        ELSE e.volumes \ { VolumeName(args) }
          /\ ensured' = IF e.raised THEN ensured
                        ELSE Append(ensured, Ensured(WorkspaceVolumeName(args), e.value))
          /\ Advance(VolumeStep(e, WorkspaceVolumeName(args), << >>), "audio_sync")
    /\ UNCHANGED << parse_vars, fn_vars, args, github >>

\* cli.py:83-85
WorkspaceVolume ==
    /\ rpc = "workspace_volume"
    /\ \E inspect_rc \in InspectCodes(calls, volumes, WorkspaceVolumeName(args)),
          create_rc \in ReturnCodes :
          LET e == EnsureVolumeExists(WorkspaceVolumeName(args), volumes,
                                      inspect_rc, create_rc) IN
          /\ (inspect_rc # 1) => create_rc = 0
          /\ volumes' = e.volumes
          /\ ensured' = IF e.raised THEN ensured
                        ELSE Append(ensured, Ensured(WorkspaceVolumeName(args), e.value))
          /\ Advance(VolumeStep(e, WorkspaceVolumeName(args), << >>), "audio_sync")
    /\ UNCHANGED << parse_vars, fn_vars, args, github >>

\* system.py:31-60, get_macos_audio_devices.  FileNotFoundError is caught:
\* without SwitchAudioSource both devices are None.
SwitchOutputCmd == << "SwitchAudioSource", "-c" >>
SwitchInputCmd == << "SwitchAudioSource", "-c", "-t", "input" >>

OutputDeviceOutputs == { << >>, << "Speakers" >> }
InputDeviceOutputs == { << >>, << "Microphone" >> }

\* output_result.stdout.decode().strip() of a successful command that wrote
\* something, else None
DeviceOf(rc, out) == IF rc = 0 /\ out # << >> THEN << out[1] >> ELSE None

GetMacosAudioDevices(out_rc, out_out, in_rc, in_out) ==
    IF out_rc = NotFound
    THEN [ calls |-> << Call(SwitchOutputCmd, out_rc, << >>) >>,
           output |-> None, input |-> None ]
    ELSE [ calls |-> << Call(SwitchOutputCmd, out_rc, out_out),
                        Call(SwitchInputCmd, in_rc, in_out) >>,
           output |-> DeviceOf(out_rc, out_out),
           input  |-> DeviceOf(in_rc, in_out) ]

\* system.py:63-106, _find_pulseaudio_device.  The lines of `pactl list` are
\* drawn from PactlLines; the tests made on the stripped line,
\* line.startswith("Name:") and line.startswith("Description:"), and
\* line.split(":", 1)[1].strip() are given over them.
PactlListCmd(device_type) == << "pactl", "list", device_type >>

PactlLines ==
    { "Name: alsa_output.speakers", "\tDescription: Speakers",
      "Name: alsa_input.mic.monitor", "Name: alsa_input.mic",
      "\tDescription: Microphone" }

IsNameLine(line) ==
    line \in { "Name: alsa_output.speakers", "Name: alsa_input.mic.monitor",
               "Name: alsa_input.mic" }

IsDescriptionLine(line) ==
    line \in { "\tDescription: Speakers", "\tDescription: Microphone" }

AfterColon(line) ==
    CASE line = "Name: alsa_output.speakers"   -> "alsa_output.speakers"
      [] line = "Name: alsa_input.mic.monitor" -> "alsa_input.mic.monitor"
      [] line = "Name: alsa_input.mic"         -> "alsa_input.mic"
      [] line = "\tDescription: Speakers"      -> "Speakers"
      [] line = "\tDescription: Microphone"    -> "Microphone"

\* ".monitor" in current_name
HasMonitor(name) == name = "alsa_input.mic.monitor"

SinkListings ==
    { << >>, << "Name: alsa_output.speakers", "\tDescription: Speakers" >> }

SourceListings ==
    { << >>,
      << "Name: alsa_input.mic.monitor", "\tDescription: Microphone",
         "Name: alsa_input.mic", "\tDescription: Microphone" >> }

RECURSIVE FindFrom(_, _, _, _, _)
FindFrom(lines, i, current_name, device_type, description) ==
    IF i > Len(lines) THEN None
    ELSE LET line == lines[i] IN
         IF IsNameLine(line)
         THEN FindFrom(lines, i + 1, << AfterColon(line) >>, device_type, description)
         ELSE IF IsDescriptionLine(line) /\ AfterColon(line) = description
              THEN IF device_type = "sources" /\ Truthy(current_name)
                      /\ HasMonitor(current_name[1])
                   THEN FindFrom(lines, i + 1, current_name, device_type, description)
                   ELSE current_name
              ELSE FindFrom(lines, i + 1, current_name, device_type, description)

FindPulseaudioDevice(device_type, description, rc, lines) ==
    IF rc # 0 THEN None ELSE FindFrom(lines, 1, None, device_type, description)

\* system.py:109-139, sync_pulseaudio_defaults.  Nothing here catches the
\* FileNotFoundError of a missing pactl, and the return codes of
\* `pactl set-default-...` are not looked at.
SetDefaultCmd(what, name) == << "pactl", "set-default-" \o what, name >>

\* One half of sync_pulseaudio_defaults: the sink or the source.
SyncOne(device, device_type, what, list_rc, lines, set_rc) ==
    IF ~Truthy(device) THEN [calls |-> << >>, raised |-> FALSE, found |-> None]
    ELSE LET list  == Call(PactlListCmd(device_type), list_rc, lines)
             found == FindPulseaudioDevice(device_type, device[1], list_rc, lines)
         IN  IF list_rc = NotFound
             THEN [calls |-> << list >>, raised |-> TRUE, found |-> None]
             ELSE IF Truthy(found)
             THEN [ calls |-> << list, Call(SetDefaultCmd(what, found[1]), set_rc, << >>) >>,
                    raised |-> FALSE, found |-> found ]
             ELSE [calls |-> << list >>, raised |-> FALSE, found |-> found]

SyncPulseaudioDefaults(output_device, input_device, sink_io, source_io) ==
    LET sink == SyncOne(output_device, "sinks", "sink",
                        sink_io.list_rc, sink_io.lines, sink_io.set_rc)
        source == SyncOne(input_device, "sources", "source",
                          source_io.list_rc, source_io.lines, source_io.set_rc)
    IN  IF sink.raised
        THEN [calls |-> sink.calls, raised |-> TRUE, sink |-> None, source |-> None]
        ELSE [ calls |-> sink.calls \o source.calls, raised |-> source.raised,
               sink |-> sink.found, source |-> source.found ]

\* What the environment answers to the pactl commands of one half.
PactlAnswers(codes, listings) ==
    { io \in [list_rc : codes, lines : listings, set_rc : ReturnCodes] :
         /\ (io.list_rc # 0) => io.lines = << >>
         /\ (io.lines = << >>) => io.set_rc = 0 }

\* cli.py:87-94
AudioSyncStep(devices, sink_io, source_io) ==
    IF ~(Truthy(devices.output) \/ Truthy(devices.input))
    THEN StepResult(devices.calls, << >>, "continue")
    ELSE LET sync == SyncPulseaudioDefaults(devices.output, devices.input,
                                            sink_io, source_io)
         IN  IF sync.raised
             THEN StepResult(devices.calls \o sync.calls, << >>, "raise")
             ELSE StepResult(devices.calls \o sync.calls,
                      (IF Truthy(sync.sink)
                       THEN << Out("Audio output: " \o devices.output[1]) >>
                       ELSE << >>)
                      \o (IF Truthy(sync.source)
                          THEN << Out("Audio input: " \o devices.input[1]) >>
                          ELSE << >>),
                      "continue")

\* What the environment does not get asked is left at its first choice, so
\* that a run is told apart only by what it did.
Unasked(io, asked) == asked \/ (io.list_rc = 0 /\ io.lines = << >> /\ io.set_rc = 0)

AudioSync ==
    /\ rpc = "audio_sync"
    /\ \E out_rc \in Codes(calls, "SwitchAudioSource"), out_out \in OutputDeviceOutputs,
          in_rc \in ReturnCodes, in_out \in InputDeviceOutputs :
          LET devices == GetMacosAudioDevices(out_rc, out_out, in_rc, in_out) IN
          /\ (out_rc # 0) <=> out_out = << >>
          /\ (in_rc # 0) <=> in_out = << >>
          /\ (out_rc = NotFound) => in_rc = 0
          /\ \E sink_io \in PactlAnswers(Codes(calls, "pactl"), SinkListings),
                source_io \in PactlAnswers(
                    IF Truthy(devices.output) THEN ReturnCodes ELSE Codes(calls, "pactl"),
                    SourceListings) :
                /\ Unasked(sink_io, Truthy(devices.output))
                /\ Unasked(source_io, Truthy(devices.input) /\ sink_io.list_rc # NotFound)
                /\ Advance(AudioSyncStep(devices, sink_io, source_io), "launch")
    /\ UNCHANGED << parse_vars, fn_vars, args, github, volumes, ensured >>

\* A faulty variant: the ports are joined last to first.
RECURSIVE JoinPorts_Reversed(_)
JoinPorts_Reversed(host_ports) ==
    IF host_ports = << >> THEN ""
    ELSE IF Len(host_ports) = 1 THEN ToString(host_ports[1])
    ELSE JoinPorts_Reversed(Tail(host_ports)) \o " " \o ToString(host_ports[1])

\* docker.py:67-102, build_docker_args
RECURSIVE JoinPorts(_)
JoinPorts(host_ports) ==
    IF host_ports = << >> THEN ""
    ELSE IF Len(host_ports) = 1 THEN ToString(host_ports[1])
    ELSE ToString(host_ports[1]) \o " " \o JoinPorts(Tail(host_ports))

\* str() of a value that may be None, as an f-string renders it
Str(v) == IF v = None THEN "None" ELSE v[1]

\* A faulty variant: the GitHub items are added whenever a configuration is
\* given, whatever enable_github says.
BuildDockerArgs_IgnoresFlag(container_name, volume_name, workspace_volume_name, host_ports, enable_github, github_config, api_key, term) ==
    << "--rm",
       "--cap-add=NET_ADMIN",
       "--add-host=host.docker.internal:host-gateway",
       "-v", volume_name \o ":/home/claude",
       "-v", workspace_volume_name \o ":/workspace",
       "-e", "PULSE_SERVER=tcp:host.docker.internal:4713",
       "-e", "ANTHROPIC_API_KEY=" \o api_key,
       "-e", "TERM=" \o term,
       "-e", "HOST_PORTS=" \o JoinPorts(host_ports),
       "--hostname", container_name,
       "--name", container_name >>
    \o (IF github_config # None
        THEN << "-v", "/run/host-services/ssh-auth.sock:/run/host-services/ssh-auth.sock",
                "-e", "SSH_AUTH_SOCK=/run/host-services/ssh-auth.sock",
                "-e", "GIT_AUTHOR_NAME=" \o Str(github_config[1].user_name),
                "-e", "GIT_AUTHOR_EMAIL=" \o Str(github_config[1].user_email),
                "-e", "GIT_COMMITTER_NAME=" \o Str(github_config[1].user_name),
                "-e", "GIT_COMMITTER_EMAIL=" \o Str(github_config[1].user_email) >>
        ELSE << >>)

BuildDockerArgs(container_name, volume_name, workspace_volume_name, host_ports, enable_github, github_config, api_key, term) ==
    << "--rm",
       "--cap-add=NET_ADMIN",
       "--add-host=host.docker.internal:host-gateway",
       "-v", volume_name \o ":/home/claude",
       "-v", workspace_volume_name \o ":/workspace",
       "-e", "PULSE_SERVER=tcp:host.docker.internal:4713",
       "-e", "ANTHROPIC_API_KEY=" \o api_key,
       "-e", "TERM=" \o term,
       "-e", "HOST_PORTS=" \o JoinPorts(host_ports),
       "--hostname", container_name,
       "--name", container_name >>
    \o (IF enable_github /\ github_config # None
        THEN << "-v", "/run/host-services/ssh-auth.sock:/run/host-services/ssh-auth.sock",
                "-e", "SSH_AUTH_SOCK=/run/host-services/ssh-auth.sock",
                "-e", "GIT_AUTHOR_NAME=" \o Str(github_config[1].user_name),
                "-e", "GIT_AUTHOR_EMAIL=" \o Str(github_config[1].user_email),
                "-e", "GIT_COMMITTER_NAME=" \o Str(github_config[1].user_name),
                "-e", "GIT_COMMITTER_EMAIL=" \o Str(github_config[1].user_email) >>
        ELSE << >>)

\* os.environ.get(key, default)
EnvGet(v, default) == IF v = None THEN default ELSE v[1]

\* ANTHROPIC_API_KEY and TERM in the launcher's environment: the key is set
\* and TERM is not.
LaunchEnvironments == { [api_key |-> << "sk-ant-test" >>, term |-> None] }

\* What `docker run -d` wrote to its standard error
RunErrors == { << >>, << "docker: Error response from daemon." >> }

RunCall(cmd, rc, err) == [cmd |-> cmd, rc |-> rc, out |-> << >>, err |-> err]

\* github_config of cli.py:67-76: the git configuration once it was found
\* valid, else None
GithubConfig(a, g) ==
    IF a.enable_github /\ g.checked /\ g.valid THEN << g.git_config >> ELSE None

\* A faulty variant: the container is always started in the foreground.
RunCmd_NeverDetached(a, docker_args) ==
    << "docker", "run", "-it" >> \o docker_args \o << IMAGE_NAME, "/bin/bash" >>

\* cli.py:117 and cli.py:137: the docker run command of either mode
RunCmd(a, docker_args) ==
    IF a.detach_mode
    THEN << "docker", "run", "-d" >> \o docker_args \o << IMAGE_NAME, "sleep", "infinity" >>
    ELSE << "docker", "run", "-it" >> \o docker_args \o << IMAGE_NAME, "/bin/bash" >>

\* cli.py:96-138
LaunchStep(a, g, env, rc, err) ==
    LET github_config == GithubConfig(a, g)
        docker_args == BuildDockerArgs(ContainerName(a), VolumeName(a),
                           WorkspaceVolumeName(a), a.host_ports, a.enable_github,
                           github_config,
                           EnvGet(env.api_key, ""), EnvGet(env.term, "xterm-256color"))
        run == RunCall(RunCmd(a, docker_args), rc, err)
        access == IF a.enable_github /\ github_config # None
                  THEN << Out("GitHub access: enabled (git user: "
                              \o Str(github_config[1].user_name) \o " <"
                              \o Str(github_config[1].user_email) \o ">)") >>
                  ELSE << >>
    IN  IF a.detach_mode
        THEN LET starting == Out("Starting Claude sandbox in detached mode (profile: "
                                 \o a.profile \o ")")
             IN  IF rc # 0
                 THEN StepResult(<< run >>,
                          access \o << starting, Err("ERROR: Failed to start container.") >>
                          \o (IF err # << >> THEN << Err(err[1]) >> ELSE << >>),
                          "exit")
                 ELSE StepResult(<< run >>,
                          access \o
                          << starting,
                             Out("Container '" \o ContainerName(a) \o "' is running."),
                             Out(""),
                             Out("To use Claude:"),
                             Out("  docker exec -it -u claude " \o ContainerName(a)
                                 \o " claude \\"),
                             Out("    --dangerously-skip-permissions"),
                             Out(""),
                             Out("To open a shell:"),
                             Out("  docker exec -it -u claude " \o ContainerName(a)
                                 \o " /bin/bash"),
                             Out(""),
                             Out("To stop:"),
                             Out("  docker stop " \o ContainerName(a)) >>,
                          "return")
        ELSE StepResult(<< run >>,
                 access \o << Out("Launching Claude sandbox (profile: "
                                  \o a.profile \o ")") >>,
                 "return")

Launch ==
    /\ rpc = "launch"
    /\ \E env \in LaunchEnvironments, rc \in ReturnCodes, err \in RunErrors :
          /\ (rc = 0 \/ ~args.detach_mode) => err = << >>
          /\ Advance(LaunchStep(args, github, env, rc, err), "done")
    /\ UNCHANGED << parse_vars, fn_vars, args, github, volumes, ensured >>

\* main: click ends the process before run_sandbox is called.
MainExits ==
    /\ rpc = "main"
    /\ ClickMainOf(argv).kind = "SystemExit"
    /\ outcome' = ClickMainOf(argv)
    /\ rpc' = "exited"
    /\ UNCHANGED << parse_vars, fn_vars, args, calls, printed, github, volumes, ensured >>

\* main: cli.py:166-172, run_sandbox is called with the Args built.
MainCallsRunSandbox ==
    /\ rpc = "main"
    /\ ClickMainOf(argv).kind = "Args"
    /\ args' = ClickMainOf(argv)
    /\ rpc' = "audio"
    /\ UNCHANGED << parse_vars, fn_vars, calls, printed, outcome, github, volumes, ensured >>

\* The Args run_sandbox is called with by a caller other than main; only
\* such a caller can set command.
DirectArgs ==
    { MakeLaunchArgs(profile, enable_github, detach_mode, << >>, command) :
        profile \in { "work" }, enable_github \in BOOLEAN, detach_mode \in BOOLEAN,
        command \in { << "ls" >>, << "/bin/bash", "-c", "echo hi" >> } }

\* The volumes the engine holds when run_sandbox is called for the profile
\* "work"; main starts against an engine that holds none.
InitialVolumes == { {}, { "claude-sandbox-work" } }

\* The launcher is started in one of three ways: parse_args(argv) alone,
\* main with the command line argv, or run_sandbox(args).
InitRun ==
    /\ NoFunctionCall
    /\ pre_args = << >>
    /\ command_args = << >>
    /\ remaining = << >>
    /\ result = NoResult
    /\ calls = << >>
    /\ printed = << >>
    /\ outcome = NoOutcome
    /\ github = NoGithub
    /\ ensured = << >>
    /\ \/ /\ pc = "start"
          /\ rpc = "idle"
          /\ argv \in PortInputs
          /\ args = NoArgs
          /\ volumes = {}
       \/ /\ pc = "idle"
          /\ rpc = "main"
          /\ argv \in CliInputs
          /\ args = NoArgs
          /\ volumes = {}
       \/ /\ pc = "idle"
          /\ rpc = "audio"
          /\ argv = << >>
          /\ args \in DirectArgs
          /\ volumes \in InitialVolumes

NextRun ==
    \/ ParseArgsReturns
    \/ ParseArgsExits
    \/ MainExits
    \/ MainCallsRunSandbox
    \/ AudioDaemon
    \/ Image
    \/ Container
    \/ Github
    \/ Volume
    \/ WorkspaceVolume
    \/ AudioSync
    \/ Launch

SpecRun == InitRun /\ [][NextRun]_vars

-----------------------------------------------------------------------------
(* ensure_volume_exists called again and again against one engine            *)

MaxEnsureCalls == 3

\* The volume names of the profile "work".
VolumeNames == { "claude-sandbox-work", "claude-sandbox-work-workspace" }

InitVolume ==
    /\ NoFunctionCall
    /\ argv = << >>
    /\ pc = "idle"
    /\ pre_args = << >>
    /\ command_args = << >>
    /\ remaining = << >>
    /\ result = NoResult
    /\ rpc = "ensure_volume_exists"
    /\ args = NoArgs
    /\ calls = << >>
    /\ printed = << >>
    /\ outcome = NoOutcome
    /\ github = NoGithub
    /\ volumes \in SUBSET VolumeNames
    /\ ensured = << >>

\* One call ensure_volume_exists(volume_name): it returns, or raises
\* FileNotFoundError when there is no docker program.
EnsureVolume ==
    /\ rpc = "ensure_volume_exists"
    /\ Len(ensured) < MaxEnsureCalls
    /\ \E volume_name \in VolumeNames :
          \E inspect_rc \in InspectCodes(calls, volumes, volume_name),
             create_rc \in ReturnCodes :
             LET e == EnsureVolumeExists(volume_name, volumes, inspect_rc, create_rc) IN
             /\ (inspect_rc # 1) => create_rc = 0
             /\ calls' = calls \o e.calls
             /\ volumes' = e.volumes
             /\ ensured' = IF e.raised THEN ensured
                           ELSE Append(ensured, Ensured(volume_name, e.value))
             /\ rpc' = IF e.raised THEN "raised" ELSE rpc
             /\ outcome' = IF e.raised THEN Raised("FileNotFoundError") ELSE outcome
    /\ UNCHANGED << parse_vars, fn_vars, args, printed, github >>

NextVolume == EnsureVolume

SpecVolume == InitVolume /\ [][NextVolume]_vars

-----------------------------------------------------------------------------
(* Vocabulary of the properties *)

\* The number of occurrences of token t in s.
Count(s, t) == Cardinality({ i \in 1..Len(s) : s[i] = t })

\* Position i of s is the value position of a --host-port: the token just
\* before it is a --host-port that is not itself such a value.
RECURSIVE IsValuePos(_, _)
IsValuePos(s, i) ==
    /\ i > 1
    /\ s[i - 1] = "--host-port"
    /\ ~IsValuePos(s, i - 1)

\* The positions of the positional tokens of s: tokens that do not start
\* with '-' and are not the value of a --host-port.
Positionals(s) ==
    { i \in 1..Len(s) : ~StartsWithDash(s[i]) /\ ~IsValuePos(s, i) }

\* The positions of the '-'-prefixed tokens of s, outside value positions,
\* that are none of --github, --detach, -d, --host-port.
UnknownFlags(s) ==
    { i \in 1..Len(s) :
        /\ StartsWithDash(s[i])
        /\ ~IsValuePos(s, i)
        /\ s[i] \notin { "--github", "--detach", "-d", "--host-port" } }

\* The k-th smallest element of the set of positions P.
Nth(P, k) == CHOOSE i \in P : Cardinality({ j \in P : j < i }) = k - 1

\* Token t is a base-10 literal of an integer in 1..65535.
InPortRange(t) == IsIntLiteral(t) /\ IntOf(t) >= 1 /\ IntOf(t) <= 65535

\* The positions of the --host-port flags of s (not those that are the value
\* of another --host-port).
HostPortFlags(s) ==
    { i \in 1..Len(s) : s[i] = "--host-port" /\ ~IsValuePos(s, i) }

\* The positions at which the scan of s would stop: an unknown flag, or a
\* positional that has another positional before it.
SplitPoints(s) ==
    LET unknown == UnknownFlags(s)
        positionals == Positionals(s)
    IN  { i \in 1..Len(s) :
            \/ i \in unknown
            \/ (i \in positionals /\ \E j \in positionals : j < i) }

FirstSplitPoint(s) ==
    LET P == SplitPoints(s) IN CHOOSE i \in P : \A j \in P : i <= j

HasSeparator == Contains(argv, "--")

\* parse_args has run (the splitter has produced its two halves).
Parsed == pc # "start"

\* parse_args has returned an Args.
Returned == pc = "returned" /\ result.kind = "Args"

-----------------------------------------------------------------------------
(* C1 *)

\* C1: for every argv that contains `--`, the launcher tokens are exactly the
\* tokens before the first `--` and the pass-through tokens exactly those
\* after it, whatever precedes it: launcher + [`--`] + pass-through is argv.
C1_SeparatorSplitsExactly ==
    (Parsed /\ HasSeparator) =>
        /\ ~Contains(pre_args, "--")
        /\ pre_args \o << "--" >> \o command_args = argv

\* An unknown flag and two positionals precede the separator.
C1_Witness ==
    /\ Parsed
    /\ HasSeparator
    /\ UnknownFlags(pre_args) # {}
    /\ Cardinality(Positionals(pre_args)) = 2

-----------------------------------------------------------------------------
(* C2 *)

\* C2 (as stated): for every argv, `--` occurs neither in the launcher tokens
\* nor in the pass-through tokens, nor in Args.command.
C2_SeparatorNeverInOutput ==
    Parsed =>
        /\ ~Contains(pre_args, "--")
        /\ ~Contains(command_args, "--")
        /\ (Returned => ~Contains(result.command, "--"))

\* C2 (amended): only the first `--` is consumed.  `--` never occurs in the
\* launcher tokens; the pass-through tokens and Args.command hold every `--`
\* of argv but the first, so they hold one exactly when argv has two or more.
C2_FirstSeparatorConsumed ==
    Parsed =>
        /\ Count(pre_args, "--") = 0
        /\ Count(command_args, "--")
             = (IF HasSeparator THEN Count(argv, "--") - 1 ELSE 0)
        /\ (Returned => Count(result.command, "--") = Count(command_args, "--"))

\* A second `--` is forwarded in the command.
C2_Witness ==
    /\ Returned
    /\ Count(argv, "--") = 2
    /\ Count(result.command, "--") = 1

-----------------------------------------------------------------------------
(* C3 *)

\* C3 (as stated): for every argv, the launcher tokens contain at most one
\* positional token.
C3_AtMostOnePositional ==
    Parsed => Cardinality(Positionals(pre_args)) <= 1

\* C3 (amended): for every argv without `--`, the launcher tokens contain at
\* most one positional token.
C3_AtMostOnePositionalWithoutSeparator ==
    (Parsed /\ ~HasSeparator) => Cardinality(Positionals(pre_args)) <= 1

\* Two positionals in argv, one of them kept as launcher token.
C3_Witness ==
    /\ Parsed
    /\ ~HasSeparator
    /\ Cardinality(Positionals(argv)) >= 2
    /\ Cardinality(Positionals(pre_args)) = 1
    /\ command_args # << >>

-----------------------------------------------------------------------------
(* C4 *)

\* C4 (as stated): for every argv, every '-'-prefixed launcher token is one
\* of the known flags or the value of a --host-port, and parse_known_args
\* leaves nothing over.
C4_NoUnknownTokenReachesParser ==
    Parsed =>
        /\ UnknownFlags(pre_args) = {}
        /\ (Returned => remaining = << >>)

\* C4 (amended): the same for every argv without `--`.
C4_NoUnknownTokenWithoutSeparator ==
    (Parsed /\ ~HasSeparator) =>
        /\ UnknownFlags(pre_args) = {}
        /\ (Returned => remaining = << >>)

\* An unknown flag in argv is cut off before the parser, which returns.
C4_Witness ==
    /\ Returned
    /\ ~HasSeparator
    /\ UnknownFlags(argv) # {}
    /\ pre_args # << >>
    /\ remaining = << >>

-----------------------------------------------------------------------------
(* C5 *)

\* C5: parse_args ends with SystemExit, and returns no Args, whenever a
\* --host-port among the launcher tokens has no following token or one that
\* is not an integer in 1..65535; 1 and 65535 are accepted; every element of
\* host_ports of a returned Args lies in 1..65535.
C5_BadHostPortExits ==
    Parsed =>
        /\ \A i \in 1..Len(pre_args) :
              ( /\ pre_args[i] = "--host-port"
                /\ (i = Len(pre_args) \/ ~InPortRange(pre_args[i + 1])) )
              => (pc = "exited" /\ result.kind = "SystemExit")
        /\ (argv = << "--host-port", "1" >>
              => (Returned /\ result.host_ports = << 1 >>))
        /\ (argv = << "--host-port", "65535" >>
              => (Returned /\ result.host_ports = << 65535 >>))
        /\ (Returned =>
              \A k \in 1..Len(result.host_ports) :
                  result.host_ports[k] >= 1 /\ result.host_ports[k] <= 65535)

\* Port 65536, given after a valid port, ends the run.
C5_Witness ==
    /\ pc = "exited"
    /\ result.kind = "SystemExit"
    /\ result.value = "65536"
    /\ pre_args = << "--host-port", "1", "--host-port", "65536" >>

-----------------------------------------------------------------------------
(* C6 *)

\* C6: when parse_args returns, host_ports is exactly the sequence of the
\* values of the --host-port flags among the launcher tokens, in order of
\* appearance, duplicates kept; empty when there is no --host-port.
C6_HostPortsInOrder ==
    Returned =>
        LET P == HostPortFlags(pre_args) IN
        /\ Len(result.host_ports) = Cardinality(P)
        /\ \A k \in 1..Cardinality(P) :
              /\ Nth(P, k) < Len(pre_args)
              /\ result.host_ports[k] = IntOf(pre_args[Nth(P, k) + 1])

\* Two ports given in decreasing order are kept in that order.
C6_Witness ==
    /\ Returned
    /\ result.host_ports = << 65535, 1 >>

-----------------------------------------------------------------------------
(* C7 *)

\* C7: for an argv without `--` whose first split point is an unknown flag at
\* position i, the Args returned has command = argv[i:], and profile, flags
\* and ports (or the SystemExit) are those of parse_args(argv[:i]); with no
\* positional before the unknown flag the profile is "default".
C7_UnknownFlagStartsCommand ==
    ( /\ Parsed
      /\ ~HasSeparator
      /\ SplitPoints(argv) # {}
      /\ FirstSplitPoint(argv) \in UnknownFlags(argv) )
    => LET i    == FirstSplitPoint(argv)
           head == ParseArgsOf(Before(argv, i)).result
       IN  IF head.kind = "SystemExit"
           THEN result = head
           ELSE /\ Returned
                /\ result.command = From(argv, i)
                /\ head.command = << >>
                /\ result.profile = head.profile
                /\ result.enable_github = head.enable_github
                /\ result.detach_mode = head.detach_mode
                /\ result.host_ports = head.host_ports
                /\ (Positionals(Before(argv, i)) = {} => result.profile = "default")

\* A profile and --github, then an unknown flag followed by a known one.
C7_Witness ==
    /\ Returned
    /\ ~HasSeparator
    /\ Len(argv) = 4
    /\ SplitPoints(argv) # {}
    /\ FirstSplitPoint(argv) = 3
    /\ argv[3] = "-v"
    /\ argv[4] = "--github"
    /\ result.command = << "-v", "--github" >>
    /\ result.profile = "work"

-----------------------------------------------------------------------------
(* C8 *)

\* C8: for every argv without `--`, the launcher tokens are a prefix of argv
\* and the pass-through tokens the rest; the pass-through part is empty when
\* argv has neither an unknown flag nor a second positional; the empty argv
\* gives two empty sequences.
C8_PrefixAndSuffix ==
    (Parsed /\ ~HasSeparator) =>
        /\ pre_args \o command_args = argv
        /\ (SplitPoints(argv) = {} => command_args = << >>)
        /\ (argv = << >> => (pre_args = << >> /\ command_args = << >>))

\* Four tokens, among them a positional and a --host-port whose value starts
\* with '-', and no split.
C8_Witness ==
    /\ Parsed
    /\ ~HasSeparator
    /\ Len(argv) = 4
    /\ SplitPoints(argv) = {}
    /\ Positionals(argv) # {}
    /\ \E i \in 1..Len(argv) : IsValuePos(argv, i) /\ StartsWithDash(argv[i])
    /\ pre_args = argv
    /\ command_args = << >>

-----------------------------------------------------------------------------
(* C9 *)

\* C9 (as stated): whenever parse_args returns, Args.profile is not empty,
\* and it is "default" when the launcher tokens contain no positional token.
C9_ProfileDefault ==
    Returned =>
        /\ result.profile # ""
        /\ (Positionals(pre_args) = {} => result.profile = "default")

\* C9 (amended): whenever parse_args returns, Args.profile is not empty, and
\* it is "default" when the launcher tokens contain no positional token and
\* no '-'-prefixed token, outside a --host-port value, other than the known
\* flags.
C9_ProfileDefaultKnownFlagsOnly ==
    Returned =>
        /\ result.profile # ""
        /\ ((Positionals(pre_args) = {} /\ UnknownFlags(pre_args) = {})
               => result.profile = "default")

\* Flags and a port but no profile: the profile is "default".
C9_Witness ==
    /\ Returned
    /\ Positionals(pre_args) = {}
    /\ UnknownFlags(pre_args) = {}
    /\ Len(pre_args) = 3
    /\ result.enable_github
    /\ Len(result.host_ports) = 1
    /\ result.profile = "default"

-----------------------------------------------------------------------------
(* C10 *)

\* The start positions of the items of s: a flag, a --host-port with its
\* value, or a positional.
ItemStarts(s) == { i \in 1..Len(s) : ~IsValuePos(s, i) }

ItemAt(s, i) ==
    IF s[i] = "--host-port" /\ i < Len(s) THEN << s[i], s[i + 1] >> ELSE << s[i] >>

\* s with its items in the order p (a permutation of 1..number of items),
\* from the k-th on.
RECURSIVE Rearranged(_, _, _)
Rearranged(s, p, k) ==
    IF k > Cardinality(ItemStarts(s)) THEN << >>
    ELSE ItemAt(s, Nth(ItemStarts(s), p[k])) \o Rearranged(s, p, k + 1)

\* s is made only of known flags, each --host-port with a valid value, and
\* exactly one positional.
KnownFlagsAndOneProfile(s) ==
    /\ \A i \in 1..Len(s) :
          IF IsValuePos(s, i) THEN InPortRange(s[i])
          ELSE \/ ~StartsWithDash(s[i])
               \/ s[i] \in { "--github", "--detach", "-d", "--host-port" }
    /\ \A i \in HostPortFlags(s) : i < Len(s)
    /\ Cardinality(Positionals(s)) = 1

\* The values of the --host-port flags of s, in order of appearance.
PortValues(s) ==
    [ k \in 1..Cardinality(HostPortFlags(s)) |->
        IntOf(s[Nth(HostPortFlags(s), k) + 1]) ]

\* C10: for an argv made only of known flags and exactly one positional,
\* every rearrangement of its flags and its positional gives the same
\* profile, enable_github and detach_mode and an empty command, with
\* host_ports in the ports' own order of appearance.
C10_OrderIndependent ==
    (Parsed /\ KnownFlagsAndOneProfile(argv)) =>
        /\ Returned
        /\ result.command = << >>
        /\ result.host_ports = PortValues(argv)
        /\ \A p \in Permutations(1..Cardinality(ItemStarts(argv))) :
              LET other_argv == Rearranged(argv, p, 1)
                  other      == ParseArgsOf(other_argv).result
              IN  /\ other.kind = "Args"
                  /\ other.profile = result.profile
                  /\ other.enable_github = result.enable_github
                  /\ other.detach_mode = result.detach_mode
                  /\ other.command = << >>
                  /\ other.host_ports = PortValues(other_argv)

\* The profile comes last, after a port and --github.
C10_Witness ==
    /\ Returned
    /\ KnownFlagsAndOneProfile(argv)
    /\ Len(argv) = 4
    /\ argv[4] = "work"
    /\ result.profile = "work"
    /\ result.enable_github
    /\ Len(result.host_ports) = 1

-----------------------------------------------------------------------------
(* C11 *)

\* C11: the tokens after the first `--` do not influence the launcher
\* configuration.  Every argv with a `--` gives the profile, enable_github,
\* detach_mode and host_ports (or the SystemExit) of the argv cut right after
\* that `--`, so any two inputs that agree before the first `--` agree on
\* them; and the tokens after the `--` end the command, unchanged and in
\* order.
C11_AfterSeparatorNoInfluence ==
    (Parsed /\ HasSeparator) =>
        LET idx   == Index(argv, "--")
            after == From(argv, idx + 1)
            head  == ParseArgsOf(Before(argv, idx) \o << "--" >>).result
        IN  IF head.kind = "SystemExit"
            THEN result = head
            ELSE /\ Returned
                 /\ result.profile = head.profile
                 /\ result.enable_github = head.enable_github
                 /\ result.detach_mode = head.detach_mode
                 /\ result.host_ports = head.host_ports
                 /\ result.command = head.command \o after

\* Known flags spelled after the separator stay in the command.
C11_Witness ==
    /\ Returned
    /\ argv = << "work", "--", "--github", "-d" >>
    /\ result.command = << "--github", "-d" >>
    /\ ~result.enable_github
    /\ ~result.detach_mode

-----------------------------------------------------------------------------
(* Vocabulary of the launcher properties *)

\* parse_args(argv) was called and has ended.
ParseEnded == pc \in { "returned", "exited" }

\* main(argv) was called and click has handled the command line.
MainParsed == pc = "idle" /\ argv # << >> /\ rpc # "main"

\* The positions of the `--` tokens of a command line that are not the value
\* of a --host-port; click stops reading options at the first of them.
Terminators(av) == { i \in 1..Len(av) : av[i] = "--" /\ ~IsValuePos(av, i) }

\* The positions of a command line click reads as options.
OptionPositions(av) ==
    { i \in 1..Len(av) : ~IsValuePos(av, i) /\ \A t \in Terminators(av) : i < t }

\* Some --host-port of the launcher tokens is followed by a value that is
\* not an integer in 1..65535.
BadPortParsed ==
    \E i \in 1..(Len(pre_args) - 1) :
        pre_args[i] = "--host-port" /\ ~InPortRange(pre_args[i + 1])

\* The same for the command line of main.
BadPortGiven ==
    \E i \in OptionPositions(argv) :
        argv[i] = "--host-port" /\ i < Len(argv) /\ ~InPortRange(argv[i + 1])

HelpGiven == \E i \in OptionPositions(argv) : argv[i] = "-h"

-----------------------------------------------------------------------------
(* C12 *)

\* C12 as stated: an invalid or out-of-range --host-port value ends the
\* process with exit status 1, through parse_args and through main.
C12_BadPortExitsWithOne ==
    /\ (ParseEnded /\ BadPortParsed)
          => (pc = "exited" /\ result.kind = "SystemExit" /\ result.code = 1)
    /\ (MainParsed /\ BadPortGiven)
          => (rpc = "exited" /\ outcome.kind = "SystemExit" /\ outcome.code = 1)

\* C12: an invalid or out-of-range --host-port value ends the process with
\* exit status 2, the status of a usage error: parse_args ends with
\* SystemExit(2), and main exits with 2 before run_sandbox has run anything,
\* or with 0 when -h is among the options (help is handled first).
C12_BadPortExitsWithTwo ==
    /\ (ParseEnded /\ BadPortParsed)
          => (pc = "exited" /\ result.kind = "SystemExit" /\ result.code = 2)
    /\ (MainParsed /\ BadPortGiven)
          => /\ rpc = "exited"
             /\ outcome.kind = "SystemExit"
             /\ outcome.code = 2 \/ (outcome.code = 0 /\ HelpGiven)
             /\ args = NoArgs
             /\ calls = << >>

\* main was given port 65536 and has exited with status 2.
C12_Witness ==
    /\ MainParsed
    /\ argv = << "--host-port", "65536" >>
    /\ rpc = "exited"
    /\ outcome = UsageError("BadParameter", "65536")

-----------------------------------------------------------------------------
(* C13 *)

\* run_sandbox was called (by main or directly).
RunStarted == args # NoArgs

\* run_sandbox has ended: it returned, called sys.exit or raised.
RunEnded == RunStarted /\ rpc \in { "done", "exited", "raised" }

\* The step of run_sandbox an external command belongs to: 1 the audio
\* daemon, 2 the image, 3 the container-name conflict, 4 the GitHub
\* preconditions, 5 the volumes, 6 the audio sync, 7 docker run.
StepOf(cmd) ==
    CASE cmd[1] = "pulseaudio" -> 1
      [] cmd[1] = "docker" /\ cmd[2] \in { "image", "build" } -> 2
      [] cmd[1] = "docker" /\ cmd[2] = "ps" -> 3
      [] cmd[1] = "git" -> 4
      [] cmd[1] = "docker" /\ cmd[2] = "volume" -> 5
      [] cmd[1] \in { "SwitchAudioSource", "pactl" } -> 6
      [] cmd[1] = "docker" /\ cmd[2] = "run" -> 7

\* The step run_sandbox stands at.
StepAt(position) ==
    CASE position = "audio" -> 1
      [] position = "image" -> 2
      [] position = "container" -> 3
      [] position = "github" -> 4
      [] position \in { "volume", "workspace_volume" } -> 5
      [] position = "audio_sync" -> 6
      [] position = "launch" -> 7

IsRun(c) == c.cmd[1] = "docker" /\ c.cmd[2] = "run"
IsVolumeCreate(c) == c.cmd[1] = "docker" /\ c.cmd[2] = "volume" /\ c.cmd[3] = "create"

\* Command i of the log is one whose result is fatal to run_sandbox: the
\* daemon could not be started, the image could not be built, the container
\* name is taken, a volume could not be created, the detached docker run
\* failed.
FatalCall(i) ==
    LET c == calls[i] IN
    \/ c.cmd = StartPulseaudioCmd /\ c.rc # 0
    \/ c.cmd = ImageBuildCmd /\ c.rc # 0
    \/ c.cmd = ContainerListCmd /\ c.rc = 0 /\ Contains(c.out, ContainerName(args))
    \/ IsVolumeCreate(c) /\ c.rc # 0
    \/ IsRun(c) /\ c.cmd[3] = "-d" /\ c.rc # 0

\* The GitHub preconditions were checked and found missing.
GithubFailed == github.checked /\ ~github.valid

\* C13: run_sandbox is fail-fast and strictly ordered.  The external commands
\* are run in the order of the steps, a step is only reached after the
\* commands of the earlier ones, a command with a fatal result is the last
\* one and ends the run, failed GitHub preconditions end it with no command
\* of a later step (no volume command, no docker run), and a run that ends
\* with no fatal result before the launch and no exception has run docker
\* run exactly once.
C13_FailFastInOrder ==
    RunStarted =>
        /\ \A i \in 1..(Len(calls) - 1) :
              StepOf(calls[i].cmd) <= StepOf(calls[i + 1].cmd)
        /\ (~RunEnded) =>
              \A i \in 1..Len(calls) :
                  /\ StepOf(calls[i].cmd) <= StepAt(rpc)
                  /\ (rpc # "workspace_volume") => StepOf(calls[i].cmd) < StepAt(rpc)
        /\ \A i \in 1..Len(calls) :
              FatalCall(i) => (i = Len(calls) /\ rpc = "exited")
        /\ GithubFailed =>
              /\ rpc = "exited"
              /\ \A i \in 1..Len(calls) : StepOf(calls[i].cmd) <= 4
        /\ Cardinality({ i \in 1..Len(calls) : IsRun(calls[i]) }) <= 1
        /\ (rpc = "exited" /\ ~IsRun(calls[Len(calls)])) =>
              \A i \in 1..Len(calls) : ~IsRun(calls[i])
        /\ rpc = "done" =>
              /\ Cardinality({ i \in 1..Len(calls) : IsRun(calls[i]) }) = 1
              /\ IsRun(calls[Len(calls)])

\* The container name is taken: the run ended at the listing, after the
\* image was built, with no volume command and no docker run.
C13_Witness ==
    /\ RunStarted
    /\ rpc = "exited"
    /\ Len(calls) = 4
    /\ calls[3].cmd = ImageBuildCmd
    /\ FatalCall(4)
    /\ calls[4].cmd = ContainerListCmd
    /\ volumes = {}

-----------------------------------------------------------------------------
(* C14 *)

\* Some command of the log is cmd and ended with a return code other than 0.
Failed(cmd) == \E i \in 1..Len(calls) : calls[i].cmd = cmd /\ calls[i].rc > 0

\* The audio daemon is not running and could not be started.
AudioDaemonDown == Failed(CheckPulseaudioCmd) /\ Failed(StartPulseaudioCmd)

\* The image is missing and its build failed.
ImageBuildFailed == Failed(ImageInspectCmd) /\ Failed(ImageBuildCmd)

\* The engine lists a container with the derived name.
ContainerNameTaken ==
    \E i \in 1..Len(calls) :
        /\ calls[i].cmd = ContainerListCmd
        /\ calls[i].rc = 0
        /\ \E k \in 1..Len(calls[i].out) : calls[i].out[k] = "claude-sandbox-" \o args.profile

\* --github is set and SSH_AUTH_SOCK, user.name or user.email is missing.
GithubPreconditionMissing ==
    /\ args.enable_github
    /\ github.checked
    /\ \/ github.ssh_sock \in { None, << "" >> }
       \/ github.git_config.user_name \in { None, << "" >> }
       \/ github.git_config.user_email \in { None, << "" >> }

\* Creating one of the two volumes failed.
VolumeCreateFailed ==
    \/ Failed(<< "docker", "volume", "create", "claude-sandbox-" \o args.profile >>)
    \/ Failed(<< "docker", "volume", "create",
                 "claude-sandbox-" \o args.profile \o "-workspace" >>)

ExitedWith(code) == rpc = "exited" /\ outcome = [kind |-> "SystemExit", code |-> code]

\* C14: run_sandbox exits with status 1 when the audio daemon is not running
\* and cannot be started, when the image is missing and its build fails,
\* when a container with the derived name exists, when --github is set and
\* a precondition is missing, and when creating either volume fails.
C14_FatalConditionsExitWithOne ==
    RunStarted =>
        /\ AudioDaemonDown => ExitedWith(1)
        /\ ImageBuildFailed => ExitedWith(1)
        /\ ContainerNameTaken => ExitedWith(1)
        /\ GithubPreconditionMissing => ExitedWith(1)
        /\ VolumeCreateFailed => ExitedWith(1)

\* The profile volume was created and the workspace volume could not be.
C14_Witness ==
    /\ RunStarted
    /\ args.profile = "work"
    /\ volumes = { "claude-sandbox-work" }
    /\ Failed(<< "docker", "volume", "create", "claude-sandbox-work-workspace" >>)
    /\ \E i \in 1..Len(calls) :
          calls[i] = Call(<< "docker", "volume", "create", "claude-sandbox-work" >>, 0, << >>)
    /\ ExitedWith(1)

-----------------------------------------------------------------------------
(* C15 *)

\* The line was printed to the standard error.
PrintedError(text) == \E k \in 1..Len(printed) : printed[k] = << "stderr", text >>

\* The docker run command of this run ended with a return code other than 0.
RunFailed == \E i \in 1..Len(calls) : IsRun(calls[i]) /\ calls[i].rc # 0

\* C15: when docker run returns a non-zero status, run_sandbox reports the
\* failure and exits with status 1, in foreground mode as well as in
\* detached mode.
C15_LaunchFailureExitsWithOne ==
    (RunStarted /\ RunFailed) =>
        /\ ExitedWith(1)
        /\ PrintedError("ERROR: Failed to start container.")

\* In foreground mode a failed docker run is followed by a plain return:
\* nothing is reported and no exit status is set.
C15_Witness ==
    /\ RunStarted
    /\ ~args.detach_mode
    /\ RunFailed
    /\ rpc = "done"
    /\ outcome = Returned_None
    /\ \A k \in 1..Len(printed) : printed[k][1] # "stderr"

-----------------------------------------------------------------------------
(* C16 *)

\* The docker run command of this run, once it was run.
HasRun == \E i \in 1..Len(calls) : IsRun(calls[i])
TheRun == calls[CHOOSE i \in 1..Len(calls) : IsRun(calls[i])].cmd

\* The tokens of a docker run command after the image name.  The image name
\* is also the prefix of no other token: the names derived from the profile
\* are longer.
AfterImage(cmd) ==
    From(cmd, 1 + CHOOSE k \in 1..Len(cmd) : cmd[k] = "claude-sandbox")

\* s ends with the tokens of t.
EndsWith(s, t) ==
    Len(t) <= Len(s) /\ SubSeq(s, Len(s) - Len(t) + 1, Len(s)) = t

\* C16: in foreground mode the docker run command carries the command tokens
\* of the Args, in order, after the image name; in detached mode they are
\* not appended.
C16_ForegroundCarriesCommand ==
    (RunStarted /\ HasRun) =>
        IF args.detach_mode
        THEN AfterImage(TheRun) = << "sleep", "infinity" >>
        ELSE EndsWith(AfterImage(TheRun), args.command)

\* run_sandbox was called in foreground mode with the command `ls`, and the
\* container was started with /bin/bash alone.
C16_Witness ==
    /\ RunStarted
    /\ HasRun
    /\ ~args.detach_mode
    /\ args.command = << "ls" >>
    /\ AfterImage(TheRun) = << "/bin/bash" >>

-----------------------------------------------------------------------------
(* C17 *)

\* A value read from the environment or from git that is None or empty.
Missing(v) == v = << >> \/ v = << "" >>

\* The number of the three preconditions that are missing.
MissingCount ==
    (IF Missing(github.ssh_sock) THEN 1 ELSE 0)
    + (IF Missing(github.git_config.user_name) THEN 1 ELSE 0)
    + (IF Missing(github.git_config.user_email) THEN 1 ELSE 0)

\* C17: validate_github_requirements reports every missing precondition in
\* one pass.  Its error list has exactly one message for each of
\* SSH_AUTH_SOCK, user.name and user.email that is unset or empty and no
\* other, the result is valid iff the list is empty, run_sandbox prints the
\* header and every message to the standard error before it exits, and
\* without --github no validation is made and git is not run.
C17_AllMissingReported ==
    RunStarted =>
        /\ github.checked =>
              /\ args.enable_github
              /\ Count(github.errors, SshAgentError)
                    = (IF Missing(github.ssh_sock) THEN 1 ELSE 0)
              /\ Count(github.errors, UserNameError)
                    = (IF Missing(github.git_config.user_name) THEN 1 ELSE 0)
              /\ Count(github.errors, UserEmailError)
                    = (IF Missing(github.git_config.user_email) THEN 1 ELSE 0)
              /\ Len(github.errors) = MissingCount
              /\ github.valid <=> github.errors = << >>
              /\ (~github.valid) =>
                    /\ ExitedWith(1)
                    /\ PrintedError("ERROR: --github requires additional configuration:")
                    /\ \A k \in 1..Len(github.errors) :
                          PrintedError("  " \o github.errors[k])
        /\ (~args.enable_github) =>
              /\ ~github.checked
              /\ \A i \in 1..Len(calls) : calls[i].cmd[1] # "git"

\* Nothing is configured: three messages are listed and printed.
C17_Witness ==
    /\ RunStarted
    /\ github.checked
    /\ Missing(github.ssh_sock)
    /\ Missing(github.git_config.user_name)
    /\ Missing(github.git_config.user_email)
    /\ github.errors = << SshAgentError, UserNameError, UserEmailError >>
    /\ PrintedError("  " \o UserEmailError)
    /\ ExitedWith(1)

-----------------------------------------------------------------------------
(* C18 *)

\* The audio-device step of this run was made.
AudioStepDone == \E i \in 1..Len(calls) : calls[i].cmd[1] = "SwitchAudioSource"

\* C18: no outcome of the audio-device step makes run_sandbox exit or raise.
\* Once the step was made the run stands before docker run or has made it,
\* whatever the device discovery and the pactl commands answered and
\* whether or not they are installed, and the step wrote nothing to the
\* standard error.
C18_AudioStepNeverFatal ==
    (RunStarted /\ AudioStepDone) =>
        /\ rpc # "raised"
        /\ rpc = "launch" \/ HasRun
        /\ (rpc = "launch") => \A k \in 1..Len(printed) : printed[k][1] # "stderr"

\* A device was reported and pactl is not installed: FileNotFoundError left
\* run_sandbox and docker run was not made.
C18_Witness ==
    /\ RunStarted
    /\ AudioStepDone
    /\ rpc = "raised"
    /\ outcome = Raised("FileNotFoundError")
    /\ calls[Len(calls)] = Call(<< "pactl", "list", "sinks" >>, NotFound, << >>)
    /\ ~HasRun

-----------------------------------------------------------------------------
(* C19 *)

\* C19: the launch mode follows detach_mode.  When it is set the docker run
\* command has -d right after `docker run`, has no -it, and runs
\* `sleep infinity` after the image name; otherwise it has -it there, has no
\* -d, and runs /bin/bash after the image name.
C19_ModeFollowsDetach ==
    (RunStarted /\ HasRun) =>
        IF args.detach_mode
        THEN /\ TheRun[3] = "-d"
             /\ ~Contains(TheRun, "-it")
             /\ AfterImage(TheRun) = << "sleep", "infinity" >>
        ELSE /\ TheRun[3] = "-it"
             /\ ~Contains(TheRun, "-d")
             /\ AfterImage(TheRun) = << "/bin/bash" >>

\* main was given -d and the container of the default profile was started
\* in the background.
C19_Witness ==
    /\ argv = << "-d" >>
    /\ RunStarted
    /\ args.detach_mode
    /\ rpc = "done"
    /\ HasRun
    /\ SubSeq(TheRun, 1, 3) = << "docker", "run", "-d" >>
    /\ Contains(TheRun, "claude-sandbox-default")
    /\ EndsWith(TheRun, << "claude-sandbox", "sleep", "infinity" >>)

-----------------------------------------------------------------------------
(* C20 *)

\* The commands a step added to the log.
NewCalls == SubSeq(calls', Len(calls) + 1, Len(calls'))

\* C20: ensure_volume_exists is create-if-absent and idempotent.  Every call
\* that returns has first run `docker volume inspect` for the name, has run
\* `docker volume create` for it only after inspect reported the volume
\* absent, and returns true iff the engine holds the volume afterwards; a
\* call for a volume the engine holds, such as a second call for the same
\* name, runs inspect alone, creates nothing, leaves the engine as it is and
\* returns true.
C20_CreateIfAbsentIdempotent ==
    [][ (ensured' # ensured) =>
          LET last == ensured'[Len(ensured')]
              inspect == << "docker", "volume", "inspect", last.name >>
              create == << "docker", "volume", "create", last.name >>
          IN  /\ Len(ensured') = Len(ensured) + 1
              /\ Len(NewCalls) \in { 1, 2 }
              /\ NewCalls[1].cmd = inspect
              /\ Len(NewCalls) = 2 =>
                    /\ NewCalls[2].cmd = create
                    /\ NewCalls[1].rc # 0
                    /\ last.name \notin volumes
              /\ last.value <=> last.name \in volumes'
              /\ last.name \in volumes =>
                    /\ Len(NewCalls) = 1
                    /\ last.value
                    /\ volumes' = volumes
    ]_vars

\* The volume was absent, the first call created it, and the second call
\* for the same name only inspected it; both returned true.
C20_Witness ==
    /\ rpc = "ensure_volume_exists"
    /\ volumes = { "claude-sandbox-work" }
    /\ ensured = << [name |-> "claude-sandbox-work", value |-> TRUE],
                    [name |-> "claude-sandbox-work", value |-> TRUE] >>
    /\ Len(calls) = 3
    /\ calls[1] = Call(<< "docker", "volume", "inspect", "claude-sandbox-work" >>, 1, << >>)
    /\ calls[2] = Call(<< "docker", "volume", "create", "claude-sandbox-work" >>, 0, << >>)
    /\ calls[3] = Call(<< "docker", "volume", "inspect", "claude-sandbox-work" >>, 0, << >>)


\* ---------------------------------------------------------------------------
\* Functions called on their own: build_docker_args (docker.py:67-102) on the
\* arguments its tests pass it, and the names two Args values derive
\* (args.py:17-30).
\* ---------------------------------------------------------------------------

\* The longest host_ports list build_docker_args is called with
MaxPorts == 2

Ports == { 3000, 8080 }
PortLists == UNION { [1..n -> Ports] : n \in 0..MaxPorts }

\* Profile names; "work-workspace" is the profile "work" followed by the
\* suffix of a workspace volume.
Profiles == { "default", "work", "work-workspace" }

\* github_config: None, or what get_git_config returned
GithubConfigs ==
    { None,
      << [user_name |-> << "Test User" >>, user_email |-> << "test@example.com" >>] >> }

ApiKeys == { "", "test-key" }

BuildDockerArgsCalls ==
    { [fn |-> "build_docker_args",
       container_name |-> "claude-sandbox-" \o profile,
       volume_name |-> "claude-sandbox-" \o profile,
       workspace_volume_name |-> "claude-sandbox-" \o profile \o "-workspace",
       host_ports |-> host_ports,
       enable_github |-> enable_github,
       github_config |-> github_config,
       api_key |-> api_key,
       term |-> "xterm"] :
        profile \in { "default", "work" }, host_ports \in PortLists,
        enable_github \in BOOLEAN, github_config \in GithubConfigs,
        api_key \in ApiKeys }

\* Two Args values, built for two profiles
ArgsCalls ==
    { [fn |-> "Args", p |-> p, q |-> q] : p \in Profiles, q \in Profiles }

\* What `docker ps -a --format {{.Names}}` can list next to a derived name:
\* nothing, the name alone or among others, other names, and names of which
\* the derived name is only a prefix or a substring.
NameListings(container_name) ==
    { << >>, << container_name >>, << "web", container_name >>,
      << container_name, "web" >>, << "web" >>,
      << container_name \o "-old" >>, << "my-" \o container_name, "web" >>,
      << "web", container_name \o "-old", "my-" \o container_name >> }

\* check_container_exists(container_name) for each result of the listing
\* command
CheckContainerExistsCalls ==
    UNION { { [fn |-> "check_container_exists", container_name |-> container_name,
               rc |-> rc, lines |-> lines] :
                rc \in ReturnCodes, lines \in NameListings(container_name) } :
            container_name \in { "claude-sandbox-default", "claude-sandbox-work" } }

\* The volume names an Args value derives, args.py:17-25
VolumeNamesOf(a) == { VolumeName(a), WorkspaceVolumeName(a) }

InitFn ==
    /\ fn_call \in BuildDockerArgsCalls \cup ArgsCalls \cup CheckContainerExistsCalls
    /\ fn_value = NoValue
    /\ argv = << >>
    /\ pc = "idle"
    /\ pre_args = << >>
    /\ command_args = << >>
    /\ remaining = << >>
    /\ result = NoResult
    /\ LauncherIdle

\* build_docker_args(...) returns its list.
CallBuildDockerArgs ==
    /\ fn_call.fn = "build_docker_args"
    /\ fn_value = NoValue
    /\ fn_value' = << BuildDockerArgs(fn_call.container_name, fn_call.volume_name,
                         fn_call.workspace_volume_name, fn_call.host_ports,
                         fn_call.enable_github, fn_call.github_config,
                         fn_call.api_key, fn_call.term) >>
    /\ UNCHANGED << parse_vars, run_vars, fn_call >>

\* Args(profile=p, ...) and Args(profile=q, ...) are built and their volume
\* names read.
CallArgs ==
    /\ fn_call.fn = "Args"
    /\ fn_value = NoValue
    /\ fn_value' = << [p |-> VolumeNamesOf([profile |-> fn_call.p]),
                       q |-> VolumeNamesOf([profile |-> fn_call.q])] >>
    /\ UNCHANGED << parse_vars, run_vars, fn_call >>

\* cli.py:60-64: check_container_exists(container_name) returns and
\* run_sandbox exits or goes on.
CallCheckContainerExists ==
    /\ fn_call.fn = "check_container_exists"
    /\ fn_value = NoValue
    /\ fn_value' = << [exists |-> CheckContainerExists(fn_call.container_name,
                                       fn_call.rc, fn_call.lines),
                       step |-> ContainerStep(fn_call.container_name,
                                       fn_call.rc, fn_call.lines)] >>
    /\ UNCHANGED << parse_vars, run_vars, fn_call >>

NextFn ==
    \/ CallBuildDockerArgs
    \/ CallArgs
    \/ CallCheckContainerExists

SpecFn == InitFn /\ [][NextFn]_vars


\* ---------------------------------------------------------------------------
\* Vocabulary of the properties of build_docker_args
\* ---------------------------------------------------------------------------

BuiltArgs == fn_call.fn = "build_docker_args" /\ fn_value # NoValue

\* The list holds `flag` immediately followed by `value`.
HasPair(list, flag, value) ==
    \E i \in 1..(Len(list) - 1) : list[i] = flag /\ list[i + 1] = value

Has(list, item) == \E i \in 1..Len(list) : list[i] = item

SshAuthSockPath == "/run/host-services/ssh-auth.sock"

\* Every value a git identity variable can be given: the names and emails of
\* GithubConfigs, GitNameOutputs and GitEmailOutputs, and a missing one
IdentityValues ==
    { "Test User", "test@example.com", "Alice", "alice@example.com", "None", "" }

\* The GitHub items, whatever identity they carry
GithubItems ==
    { SshAuthSockPath \o ":" \o SshAuthSockPath, "SSH_AUTH_SOCK=" \o SshAuthSockPath }
    \cup { key \o "=" \o v :
             key \in { "GIT_AUTHOR_NAME", "GIT_AUTHOR_EMAIL",
                       "GIT_COMMITTER_NAME", "GIT_COMMITTER_EMAIL" },
             v \in IdentityValues }

HasAllGithubItems(list, github_config) ==
    /\ HasPair(list, "-v", SshAuthSockPath \o ":" \o SshAuthSockPath)
    /\ HasPair(list, "-e", "SSH_AUTH_SOCK=" \o SshAuthSockPath)
    /\ github_config # None =>
         /\ HasPair(list, "-e", "GIT_AUTHOR_NAME=" \o github_config[1].user_name[1])
         /\ HasPair(list, "-e", "GIT_AUTHOR_EMAIL=" \o github_config[1].user_email[1])
         /\ HasPair(list, "-e", "GIT_COMMITTER_NAME=" \o github_config[1].user_name[1])
         /\ HasPair(list, "-e", "GIT_COMMITTER_EMAIL=" \o github_config[1].user_email[1])

HasNoGithubItem(list) ==
    LET items == GithubItems IN \A i \in 1..Len(list) : list[i] \notin items

\* The value of HOST_PORTS for a list of at most three ports, written out
PortsText(host_ports) ==
    CASE Len(host_ports) = 0 -> ""
      [] Len(host_ports) = 1 -> ToString(host_ports[1])
      [] Len(host_ports) = 2 -> ToString(host_ports[1]) \o " " \o ToString(host_ports[2])
      [] Len(host_ports) = 3 -> ToString(host_ports[1]) \o " " \o ToString(host_ports[2])
                                  \o " " \o ToString(host_ports[3])

HasBaseArgs(list, c) ==
    /\ Has(list, "--rm")
    /\ Has(list, "--cap-add=NET_ADMIN")
    /\ Has(list, "--add-host=host.docker.internal:host-gateway")
    /\ HasPair(list, "-v", c.volume_name \o ":/home/claude")
    /\ HasPair(list, "-v", c.workspace_volume_name \o ":/workspace")
    /\ HasPair(list, "-e", "PULSE_SERVER=tcp:host.docker.internal:4713")
    /\ HasPair(list, "-e", "ANTHROPIC_API_KEY=" \o c.api_key)
    /\ HasPair(list, "-e", "TERM=" \o c.term)
    /\ HasPair(list, "-e", "HOST_PORTS=" \o PortsText(c.host_ports))
    /\ HasPair(list, "--hostname", c.container_name)
    /\ HasPair(list, "--name", c.container_name)

HostPortsItems == { "HOST_PORTS=" \o PortsText(l) : l \in PortLists }

\* C22: the list holds one HOST_PORTS item, after -e: the ports joined by
\* single spaces in the order of host_ports, duplicates kept, and
\* "HOST_PORTS=" alone when host_ports is empty.
C22_HostPortsJoinedInOrder ==
    BuiltArgs =>
        LET list == fn_value[1]
            host_ports == fn_call.host_ports IN
        /\ HasPair(list, "-e", "HOST_PORTS=" \o PortsText(host_ports))
        /\ Cardinality({ i \in 1..Len(list) : list[i] \in HostPortsItems }) = 1
        /\ host_ports = << >> => HasPair(list, "-e", "HOST_PORTS=")
        /\ host_ports = << 8080, 3000 >> => HasPair(list, "-e", "HOST_PORTS=8080 3000")
        /\ host_ports = << 3000, 3000 >> => HasPair(list, "-e", "HOST_PORTS=3000 3000")

\* build_docker_args was called with [8080, 3000] and returned
\* HOST_PORTS=8080 3000.
C22_Witness ==
    /\ BuiltArgs
    /\ fn_call.host_ports = << 8080, 3000 >>
    /\ HasPair(fn_value[1], "-e", "HOST_PORTS=8080 3000")


\* ---------------------------------------------------------------------------
\* Resource names and what run_sandbox leaves behind
\* ---------------------------------------------------------------------------

IsVolumeCommand(c) == c.cmd[1] = "docker" /\ c.cmd[2] = "volume"

\* C23: the names are functions of the profile alone, volume_name =
\* "claude-sandbox-" + profile, workspace_volume_name = volume_name +
\* "-workspace", container_name = volume_name, and run_sandbox uses exactly
\* these for the conflict check, the two volumes (first the profile volume,
\* then the workspace volume), the mounts and --hostname/--name.
C23_NamesDerivedFromProfile ==
    RunStarted =>
        LET volume_name == "claude-sandbox-" \o args.profile
            workspace_volume_name == volume_name \o "-workspace"
            container_name == volume_name IN
        /\ \A i \in 1..Len(calls) :
              IsVolumeCommand(calls[i]) =>
                  calls[i].cmd[4] \in { volume_name, workspace_volume_name }
        /\ \A k \in 1..Len(ensured) :
              ensured[k].name = IF k = 1 THEN volume_name ELSE workspace_volume_name
        /\ \A i \in 1..Len(calls) :
              calls[i].cmd = ContainerListCmd =>
                  ((calls[i].rc = 0 /\ Has(calls[i].out, container_name))
                   <=> PrintedError("ERROR: Container '" \o container_name
                                     \o "' already exists."))
        /\ HasRun =>
              /\ HasPair(TheRun, "-v", volume_name \o ":/home/claude")
              /\ HasPair(TheRun, "-v", workspace_volume_name \o ":/workspace")
              /\ HasPair(TheRun, "--hostname", container_name)
              /\ HasPair(TheRun, "--name", container_name)

\* The profile "work" was launched: both volumes were ensured and the
\* container is named claude-sandbox-work.
C23_Witness ==
    /\ RunStarted
    /\ args.profile = "work"
    /\ HasRun
    /\ Len(ensured) = 2
    /\ HasPair(TheRun, "--name", "claude-sandbox-work")
    /\ HasPair(TheRun, "-v", "claude-sandbox-work-workspace:/workspace")


\* A command that removes a volume or a container
IsRemoval(c) ==
    /\ c.cmd[1] = "docker"
    /\ \/ c.cmd[2] \in { "rm", "stop", "kill" }
       \/ c.cmd[2] \in { "volume", "container" } /\ c.cmd[3] \in { "rm", "remove", "prune" }

\* Volume `name` was created by a command of this run.
CreatedInRun(name) ==
    \E i \in 1..Len(calls) :
        IsVolumeCreate(calls[i]) /\ calls[i].rc = 0 /\ calls[i].cmd[4] = name

\* C24: run_sandbox never runs a volume- or container-removal command, and
\* every volume a command of the run created is still held by the engine,
\* at every point of the run and so when it fails later (the second volume
\* cannot be created, the detached launch fails).
C24_NoRollback ==
    RunStarted =>
        /\ \A i \in 1..Len(calls) : ~IsRemoval(calls[i])
        /\ \A i \in 1..Len(calls) :
              (IsVolumeCreate(calls[i]) /\ calls[i].rc = 0) => calls[i].cmd[4] \in volumes

\* The profile volume was created, creating the workspace volume failed, the
\* run exited with status 1 and the profile volume is still there.
C24_Witness ==
    /\ RunStarted
    /\ ExitedWith(1)
    /\ CreatedInRun("claude-sandbox-" \o args.profile)
    /\ \E i \in 1..Len(calls) :
          /\ calls[i].cmd = VolumeCreateCmd("claude-sandbox-" \o args.profile \o "-workspace")
          /\ calls[i].rc # 0
    /\ "claude-sandbox-" \o args.profile \in volumes
    /\ "claude-sandbox-" \o args.profile \o "-workspace" \notin volumes


-----------------------------------------------------------------------------
(* C25 *)

\* argv has a second positional token.
HasSecondPositional(s) == Cardinality(Positionals(s)) >= 2

\* C25: for an argv without `--` whose second positional token stands at
\* position k, the command ends with argv[k:] (it is argv[k:] when no unknown
\* flag comes earlier), and profile, flags and ports (or the SystemExit) are
\* those of parse_args(argv[:k]): --github, -d and --host-port N from
\* position k on set nothing.
C25_SecondPositionalStartsCommand ==
    (Parsed /\ ~HasSeparator /\ HasSecondPositional(argv)) =>
        LET k    == Nth(Positionals(argv), 2)
            head == ParseArgsOf(Before(argv, k)).result
        IN  /\ EndsWith(command_args, From(argv, k))
            /\ (FirstSplitPoint(argv) = k => command_args = From(argv, k))
            /\ IF head.kind = "SystemExit"
               THEN result = head
               ELSE /\ Returned
                    /\ result.command = head.command \o From(argv, k)
                    /\ result.profile = head.profile
                    /\ result.enable_github = head.enable_github
                    /\ result.detach_mode = head.detach_mode
                    /\ result.host_ports = head.host_ports
                    /\ (~Contains(Before(argv, k), "--github") => ~result.enable_github)
                    /\ (~Contains(Before(argv, k), "-d") => ~result.detach_mode)
                    /\ (~Contains(Before(argv, k), "--host-port")
                           => result.host_ports = << >>)

\* `work 1 --github -d`: the flags after the second positional are forwarded.
C25_Witness ==
    /\ Returned
    /\ argv = << "work", "1", "--github", "-d" >>
    /\ result.command = << "1", "--github", "-d" >>
    /\ result.profile = "work"
    /\ ~result.enable_github
    /\ ~result.detach_mode


-----------------------------------------------------------------------------
(* C26 *)

\* Position i of s follows a --host-port token, whatever that token is
\* itself.
FollowsHostPort(s, i) == i > 1 /\ s[i - 1] = "--host-port"

\* The split points of s when every token that follows a --host-port token
\* is taken for a value.
SplitPointsByNeighbour(s) ==
    LET positionals == { i \in 1..Len(s) : ~StartsWithDash(s[i]) /\ ~FollowsHostPort(s, i) }
        unknown == { i \in 1..Len(s) :
                       /\ StartsWithDash(s[i])
                       /\ ~FollowsHostPort(s, i)
                       /\ s[i] \notin { "--github", "--detach", "-d", "--host-port" } }
    IN  { i \in 1..Len(s) :
            \/ i \in unknown
            \/ (i \in positionals /\ \E j \in positionals : j < i) }

\* The launcher tokens of s when the scan stops at the first of the split
\* points P.
LauncherTokens(s, P) ==
    IF P = {} THEN s ELSE Before(s, CHOOSE i \in P : \A j \in P : i <= j)

\* A --host-port is the last token of s, and the scan reaches it.
TrailingHostPort(s) ==
    /\ s # << >>
    /\ s[Len(s)] = "--host-port"
    /\ SplitPoints(s) = {}

\* C26 as stated: in an argv without `--` the token that follows a
\* --host-port token is a launcher token with it, whatever its spelling: it
\* is no positional and no split point; a trailing --host-port stays among
\* the launcher tokens and the parser rejects it.
C26_TokenAfterHostPortIsValue ==
    (Parsed /\ ~HasSeparator) =>
        /\ pre_args = LauncherTokens(argv, SplitPointsByNeighbour(argv))
        /\ TrailingHostPort(argv) =>
              (pre_args = argv /\ pc = "exited" /\ result.code = 2)

\* C26, amended: the token that follows a --host-port is a launcher token
\* with it, no positional and no split point, when that --host-port is not
\* itself the value of the --host-port before it; a --host-port taken as a
\* value gives the token after it no such standing.  A trailing --host-port
\* that the scan reaches stays among the launcher tokens and the parser
\* rejects it with status 2.
C26_TokenAfterHostPortFlagIsValue ==
    (Parsed /\ ~HasSeparator) =>
        /\ pre_args = LauncherTokens(argv, SplitPoints(argv))
        /\ \A i \in HostPortFlags(argv) :
              (i <= Len(pre_args) /\ i < Len(argv)) => i + 1 <= Len(pre_args)
        /\ TrailingHostPort(argv) =>
              (pre_args = argv /\ pc = "exited" /\ result.code = 2)

\* `--host-port -5 work -d`: "-5" starts with '-' and is no split point,
\* "work" is the first positional, the whole argv goes to the parser, which
\* rejects the port.
C26_Witness ==
    /\ Parsed
    /\ argv = << "--host-port", "-5", "work", "-d" >>
    /\ pre_args = argv
    /\ command_args = << >>
    /\ pc = "exited"
    /\ result.code = 2


-----------------------------------------------------------------------------
(* C27 *)

GitIdentityKeys ==
    { "GIT_AUTHOR_NAME", "GIT_AUTHOR_EMAIL", "GIT_COMMITTER_NAME", "GIT_COMMITTER_EMAIL" }

\* The position of the docker run command in the log
RunIndex == CHOOSE i \in 1..Len(calls) : IsRun(calls[i])

\* C27: when docker run carries the agent-socket mount or a GIT_* identity
\* variable, the GitHub preconditions were checked earlier in the run and
\* found valid: SSH_AUTH_SOCK was set and user.name and user.email were not
\* empty, and the four variables carry that name and that email.  No GIT_*
\* variable is ever built from None or the empty string.
C27_GithubItemsOnlyAfterValidation ==
    (RunStarted /\ HasRun) =>
        LET run == TheRun
            missing == { key \o "=" \o v : key \in GitIdentityKeys, v \in { "None", "" } }
        IN
        /\ ~HasNoGithubItem(run) =>
              /\ args.enable_github
              /\ github.checked
              /\ github.valid
              /\ Truthy(github.ssh_sock)
              /\ Truthy(github.git_config.user_name)
              /\ Truthy(github.git_config.user_email)
              /\ \E i \in 1..(RunIndex - 1) : calls[i].cmd = GitConfigCmd("user.name")
              /\ \E i \in 1..(RunIndex - 1) : calls[i].cmd = GitConfigCmd("user.email")
              /\ HasAllGithubItems(run, << github.git_config >>)
        /\ \A i \in 1..Len(run) : run[i] \notin missing

\* --github was given, the preconditions held and the container was started
\* with the identity of the git configuration.
C27_Witness ==
    /\ RunStarted
    /\ HasRun
    /\ args.enable_github
    /\ github.valid
    /\ HasPair(TheRun, "-e", "GIT_AUTHOR_NAME=Alice")
    /\ HasPair(TheRun, "-e", "GIT_COMMITTER_EMAIL=alice@example.com")
    /\ HasPair(TheRun, "-v", SshAuthSockPath \o ":" \o SshAuthSockPath)


-----------------------------------------------------------------------------
(* C28 *)

\* The names of two Args values were derived.
NamesDerived == fn_call.fn = "Args" /\ fn_value # NoValue

\* C28: two distinct profiles share no volume name: the names derived for p
\* (volume_name, workspace_volume_name) and those derived for q are disjoint.
C28_ProfilesShareNoVolume ==
    (NamesDerived /\ fn_call.p # fn_call.q) =>
        fn_value[1].p \cap fn_value[1].q = {}

\* The workspace volume of the profile "work" is the home volume of the
\* profile "work-workspace".
C28_Witness ==
    /\ NamesDerived
    /\ fn_call.p = "work"
    /\ fn_call.q = "work-workspace"
    /\ fn_value[1].p \cap fn_value[1].q = { "claude-sandbox-work-workspace" }


-----------------------------------------------------------------------------
(* C29 *)

ContainerChecked == fn_call.fn = "check_container_exists" /\ fn_value # NoValue

\* C29: check_container_exists returns true exactly when the listing command
\* returned 0 and one whole line of its output is the name; a listed name
\* that only begins with or contains the name is no conflict; a failed
\* listing and an empty one give false.  run_sandbox exits on true and goes
\* on to the next step on false.
C29_ExactWholeNameMatch ==
    ContainerChecked =>
        LET name == fn_call.container_name
            lines == fn_call.lines
            exists == fn_value[1].exists
        IN  /\ exists <=> (fn_call.rc = 0 /\ \E k \in 1..Len(lines) : lines[k] = name)
            /\ fn_call.rc # 0 => ~exists
            /\ lines = << >> => ~exists
            /\ lines \in { << name \o "-old" >>, << "my-" \o name, "web" >>,
                           << "web", name \o "-old", "my-" \o name >> } => ~exists
            /\ fn_value[1].step.end = IF exists THEN "exit" ELSE "continue"

\* Only longer names are listed: no conflict, and the run goes on.
C29_Witness ==
    /\ ContainerChecked
    /\ fn_call.rc = 0
    /\ fn_call.lines = << "web", "claude-sandbox-work-old", "my-claude-sandbox-work" >>
    /\ fn_call.container_name = "claude-sandbox-work"
    /\ ~fn_value[1].exists
    /\ fn_value[1].step.end = "continue"


-----------------------------------------------------------------------------
(* C30 *)

\* Command i of the log is `remedy`, and it directly follows a `check` that
\* did not return 0.
AfterFailedCheck(i, check) ==
    i > 1 /\ calls[i - 1].cmd = check /\ calls[i - 1].rc # 0

\* No command of the log is `cmd`.
NeverRun(cmd) == \A i \in 1..Len(calls) : calls[i].cmd # cmd

\* Command i succeeded and the run went on: the next command, when there is
\* one, is the first command of the next step, and until then run_sandbox
\* stands at that step.
WentOnAfter(i, position, cmd) ==
    IF i = Len(calls) THEN rpc = position ELSE calls[i + 1].cmd = cmd

\* C30: start_pulseaudio runs only after check_pulseaudio_running returned
\* false and build_image only after check_image_exists returned false; when
\* the check passes the remedy is never run, and when the remedy succeeds
\* the run goes on to the next step.
C30_RemedyOnlyAfterFailedCheck ==
    RunStarted =>
        \A i \in 1..Len(calls) :
            /\ calls[i].cmd = StartPulseaudioCmd => AfterFailedCheck(i, CheckPulseaudioCmd)
            /\ calls[i].cmd = ImageBuildCmd => AfterFailedCheck(i, ImageInspectCmd)
            /\ (calls[i].cmd = CheckPulseaudioCmd /\ calls[i].rc = 0)
                  => NeverRun(StartPulseaudioCmd)
            /\ (calls[i].cmd = ImageInspectCmd /\ calls[i].rc = 0)
                  => NeverRun(ImageBuildCmd)
            /\ (calls[i].cmd = StartPulseaudioCmd /\ calls[i].rc = 0)
                  => WentOnAfter(i, "image", ImageInspectCmd)
            /\ (calls[i].cmd = ImageBuildCmd /\ calls[i].rc = 0)
                  => WentOnAfter(i, "container", ContainerListCmd)

\* The daemon was down and was started, the image was missing and was
\* built, and the run reached docker run.
C30_Witness ==
    /\ RunStarted
    /\ HasRun
    /\ \E i \in 1..Len(calls) : calls[i].cmd = StartPulseaudioCmd /\ calls[i].rc = 0
    /\ \E i \in 1..Len(calls) : calls[i].cmd = ImageBuildCmd /\ calls[i].rc = 0
    /\ Failed(CheckPulseaudioCmd)
    /\ Failed(ImageInspectCmd)

=============================================================================
